---------------------------- MODULE Spec2Model ----------------------------
(***************************************************************************)
(* Decision-intelligence core of the AGRI-mitra backend: harvest-window    *)
(* optimizer, spoilage-risk engine, mandi recommendation engine, price     *)
(* forecaster and decision composer.                                       *)
(*                                                                         *)
(* Numbers.  The Python code computes in binary floating point; the model  *)
(* computes in scaled integers:                                            *)
(*   temperatures, humidity, rainfall, wind    tenths of the unit          *)
(*   factor scores in [0,1]                    thousandths                 *)
(*   spoilage percentage before rounding       millionths of a percent     *)
(*   reported percentages and prices           hundredths                  *)
(* Comparisons of averages are cross-multiplied so that they are exact.    *)
(* The tables are modelled as the queries of the ML code read them         *)
(* (DataAccess contract); a nullable column holds Null when it is NULL.    *)
(***************************************************************************)
EXTENDS Integers, Sequences, FiniteSets, TLC

VARIABLES
    cropMeta,   \* CropMeta table: crop |-> row, as cached by _load_crop_meta
    weather,    \* WeatherRecord table: district |-> rows, newest first
    ndvi,       \* NDVIRecord table: district |-> rows, newest first
    soil,       \* SoilProfile table: district |-> <<row>> or <<>>
    routes,     \* TransportRoute table: set of rows
    prices,     \* MandiPrice table of one commodity: district |-> daily modal prices, oldest first
    models,     \* PricePredictor.models: commodity |-> <<model>> or <<>>
    req,        \* the call in progress: operation and arguments
    res,        \* its return value, <<>> while the call has not returned
    log,        \* the calls of the session that have returned: <<[req, res], ...>>
    disk,       \* MODEL_DIR/price_onion.pkl: the chunks written to it, <<>> when empty or absent
    procs,      \* requests served concurrently: id |-> position and local variables
    dbUp,       \* the database session answers queries; when FALSE a query raises
    trades,     \* TradeRecord table: row i has id i
    settlements \* SettlementRecord table, in insertion order

vars == <<cropMeta, weather, ndvi, soil, routes, prices, models, req, res, log, disk, procs, dbUp, trades, settlements>>

-----------------------------------------------------------------------------
(* Python helpers *)

\* None / SQL NULL of a numeric column
Null == 0 - 999999

\* x or d : None and 0 are both falsy
Or(x, d) == IF x = Null \/ x = 0 THEN d ELSE x

Min(a, b) == IF a <= b THEN a ELSE b
Max(a, b) == IF a >= b THEN a ELSE b

RECURSIVE SumSeq(_)
SumSeq(s) == IF s = <<>> THEN 0 ELSE Head(s) + SumSeq(Tail(s))

RECURSIVE MaxSeq(_)
MaxSeq(s) == IF Len(s) = 1 THEN s[1] ELSE Max(Head(s), MaxSeq(Tail(s)))

\* s[:n]
Take(s, n) == SubSeq(s, 1, Min(n, Len(s)))
\* s[-n:]
LastN(s, n) == SubSeq(s, Max(1, Len(s) - n + 1), Len(s))

\* floor(x * m / d) for x >= 0, without leaving 32 bits
MulDiv(x, m, d) == (x \div d) * m + ((x % d) * m) \div d

\* round(v, 2) of a value held in units of 1/(100*unit): nearest hundredth
RoundTo(v, unit) == (v + unit \div 2) \div unit

\* str.lower() on the names the model uses
Lower(s) ==
    CASE s = "Onion" -> "onion"
      [] s = "Nashik" -> "nashik"
      [] s = "Pune" -> "pune"
      [] s = "Mumbai" -> "mumbai"
      [] s = "Rising" -> "rising"
      [] s = "Low" -> "low"
      [] s = "Medium" -> "medium"
      [] s = "High" -> "high"
      [] s = "Critical" -> "critical"
      [] s = "Harvest-Ready" -> "harvest-ready"
      [] OTHER -> s

\* d.get(key, default): a key of a dict argument is <<>> when absent, <<v>> when present
Get(opt, default) == IF opt = <<>> THEN default ELSE opt[1]

-----------------------------------------------------------------------------
(* Seed data and tables *)

\* CROP_META_SEED rows, with the field names the ML code reads
SeedOnion ==
    [maturity_days_min |-> 110, maturity_days_max |-> 140, shelf_life_days |-> 21,
     optimal_temp_min |-> 0, optimal_temp_max |-> 50,
     optimal_humidity_min |-> 650, optimal_humidity_max |-> 700,
     fao_loss_pct |-> 152, base_price |-> 2100, category |-> "vegetable"]

SeedTomato ==
    [maturity_days_min |-> 80, maturity_days_max |-> 110, shelf_life_days |-> 7,
     optimal_temp_min |-> 100, optimal_temp_max |-> 150,
     optimal_humidity_min |-> 850, optimal_humidity_max |-> 950,
     fao_loss_pct |-> 253, base_price |-> 1800, category |-> "vegetable"]

SeedGrape ==
    [maturity_days_min |-> 120, maturity_days_max |-> 150, shelf_life_days |-> 3,
     optimal_temp_min |-> 0, optimal_temp_max |-> 20,
     optimal_humidity_min |-> 900, optimal_humidity_max |-> 950,
     fao_loss_pct |-> 220, base_price |-> 4500, category |-> "fruit"]

SeedCropMeta ==
    [c \in {"onion", "tomato", "grape"} |->
        CASE c = "onion" -> SeedOnion
          [] c = "tomato" -> SeedTomato
          [] c = "grape" -> SeedGrape]

\* meta used by HarvestModel.predict for a crop that is not cached
HarvestDefaultMeta ==
    [maturity_days_min |-> 60, maturity_days_max |-> 90,
     category |-> "vegetable", shelf_life_days |-> 7]

Districts == {"nashik", "pune", "mumbai"}

\* the orders in which a query may return the districts' rows of one date
TieOrders == { t \in [1..Cardinality(Districts) -> Districts] :
                 \A i, j \in DOMAIN t : i # j => t[i] # t[j] }

\* a table that holds rows for one district only
OnlyFor(d, rows) == [x \in Districts |-> IF x = d THEN rows ELSE <<>>]

\* rows of a table for a district (no rows for a district the table does not know)
RowsOf(table, district) ==
    IF Lower(district) \in DOMAIN table THEN table[Lower(district)] ELSE <<>>

-----------------------------------------------------------------------------
(* HarvestModel (ml/harvest_model.py) *)

\* crop age in days, Null when neither a sowing date nor an age is given.
\* sowing_date is <<>> (None or ""), <<"invalid">> (not an ISO date) or
\* <<"iso", k>>: an ISO date k days before today.
CropAge(sowing_date, crop_age_days) ==
    IF sowing_date # <<>>
    THEN IF sowing_date[1] = "iso" THEN sowing_date[2] ELSE Or(crop_age_days, 60)
    ELSE crop_age_days

AssessMaturity(age_days, meta) ==
    IF age_days = Null
    THEN [status |-> "unknown", score |-> 500]
    ELSE LET min_days == meta.maturity_days_min
             max_days == meta.maturity_days_max
         IN  IF 10 * age_days < 8 * min_days
             THEN [status |-> "immature", score |-> 0,
                   days_to_maturity |-> min_days - age_days]
             ELSE IF age_days < min_days
             THEN [status |-> "approaching",
                   score |-> 300 + (300 * (10 * age_days - 8 * min_days)) \div (2 * min_days),
                   days_to_maturity |-> min_days - age_days]
             ELSE IF age_days <= max_days
             THEN [status |-> "mature",
                   score |-> 800 + (200 * (age_days - min_days)) \div Max(1, max_days - min_days),
                   days_to_maturity |-> 0]
             ELSE [status |-> "over_mature", score |-> 1000,
                   days_overdue |-> age_days - max_days]

\* rows: NDVI rows of the district, newest first (the query keeps 6)
AssessNdvi(rows) ==
    IF rows = <<>>
    THEN [status |-> "no_data", score |-> 500]
    ELSE LET latest == Take(rows, 6)[1]
             trend == Or(latest.trend_30d, 0)
             plateau == latest.growth_plateau
         IN  IF plateau \/ trend < 0 - 100
             THEN [status |-> "harvest_ready", score |-> 850]
             ELSE IF trend < 50
             THEN [status |-> "near_ready", score |-> 650]
             ELSE [status |-> "growing", score |-> 300]

\* rows: weather rows of the district, newest first (the query keeps 7)
AssessWeatherRisk(rows) ==
    IF rows = <<>>
    THEN [status |-> "no_data", score |-> 500]
    ELSE LET recent == Take(rows, 7)
             n == Len(recent)
             rainfall_values == [i \in 1..n |-> Or(recent[i].rainfall_mm, 0)]
             humidity_values == [i \in 1..n |-> Or(recent[i].humidity, 600)]
             wind_values == [i \in 1..n |-> Or(recent[i].wind_speed, 20)]
             sum_rain == SumSeq(rainfall_values)
             max_rainfall == MaxSeq(rainfall_values)
             sum_humidity == SumSeq(humidity_values)
             sum_wind == SumSeq(wind_values)
         IN  IF max_rainfall > 200 \/ sum_rain > 100 * n
             THEN [status |-> "rain_risk", score |-> 900]
             ELSE IF sum_rain > 30 * n \/ sum_humidity > 850 * n
             THEN [status |-> "moderate_rain", score |-> 600]
             ELSE IF sum_humidity < 500 * n /\ sum_wind > 30 * n
             THEN [status |-> "optimal", score |-> 100]
             ELSE [status |-> "fair", score |-> 300]

\* the district's prices of the last `days` days (arrival_date >= today - days)
PricesSince(plist, days) == LastN(plist, days + 1)

\* plist: modal prices of the commodity in the district, oldest first
AssessPriceTiming(plist) ==
    LET price_list == PricesSince(plist, 30)
    IN  IF Len(price_list) < 5
        THEN [status |-> "insufficient_data", score |-> 500]
        ELSE LET sum_recent == SumSeq(LastN(price_list, 7))
                 sum_earlier == SumSeq(Take(price_list, 7))
                 \* trend_pct > 5  <=>  (recent - earlier) * 100 > 5 * earlier
                 rising == sum_earlier > 0 /\ (sum_recent - sum_earlier) * 100 > 5 * sum_earlier
                 falling == sum_earlier > 0 /\ (sum_recent - sum_earlier) * 100 < (0 - 5) * sum_earlier
             IN  IF rising THEN [status |-> "prices_rising", score |-> 700]
                 ELSE IF falling THEN [status |-> "prices_falling", score |-> 300]
                 ELSE [status |-> "prices_stable", score |-> 500]

\* rows: <<>> or <<soil row>>; score in hundredths
AssessSoilQuality(rows) ==
    IF rows = <<>>
    THEN [status |-> "no_data", score |-> 50]
    ELSE LET row == rows[1]
             sqi == Or(row.soil_quality_index, 500)        \* thousandths
             ph == Or(row.ph, 70)                          \* tenths
             n == Or(row.nitrogen_kg_ha, 200)
             oc == Or(row.organic_carbon_pct, 50)          \* hundredths of a percent
             ph_penalty == IF ph < 60 \/ ph > 80 THEN 150
                           ELSE IF ph < 65 \/ ph > 75 THEN 50 ELSE 0
             \* in 1/10000: sqi*0.4 + min(1, n/250)*0.3 + min(1, oc/0.75)*0.2 + (1-pen)*0.1
             raw == sqi * 4 + Min(3000, n * 12) + Min(2000, (oc * 2000) \div 75)
                    + (1000 - ph_penalty)
             soil_score == RoundTo(Min(10000, Max(0, raw)), 100)
         IN  [status |-> IF soil_score > 70 THEN "good"
                         ELSE IF soil_score > 50 THEN "moderate" ELSE "poor",
              score |-> soil_score]

\* wait = min(5, shelf_life // 2) of the price rule
PriceWait(meta) == Min(5, meta.shelf_life_days \div 2)

\* the cascade with the rain rule tried before the maturity rule
MakeDecisionRainBeforeMaturity(maturity, ndviSig, weatherSig, priceSig, meta) ==
    IF maturity.status = "over_mature"
    THEN IF weatherSig.status \in {"optimal", "fair"}
         THEN [action |-> "urgent_harvest", wait_days |-> 0,
               window_start |-> 0, window_end |-> 2, priority |-> "critical"]
         ELSE [action |-> "urgent_harvest", wait_days |-> 1,
               window_start |-> 1, window_end |-> 3, priority |-> "critical"]
    ELSE IF weatherSig.status = "rain_risk"
    THEN [action |-> "wait", wait_days |-> 3,
          window_start |-> 3, window_end |-> 7, priority |-> "medium"]
    ELSE IF maturity.score < 500 /\ ndviSig.status # "harvest_ready"
    THEN LET wait == IF "days_to_maturity" \in DOMAIN maturity
                     THEN maturity.days_to_maturity ELSE 10
         IN  [action |-> "wait", wait_days |-> wait,
              window_start |-> Max(0, wait - 5), window_end |-> wait + 10,
              priority |-> "low"]
    ELSE IF priceSig.status = "prices_rising" /\ maturity.status = "mature"
    THEN [action |-> "wait", wait_days |-> PriceWait(meta),
          window_start |-> 0, window_end |-> PriceWait(meta) + 3, priority |-> "low"]
    ELSE [action |-> "harvest_now", wait_days |-> 0,
          window_start |-> 0, window_end |-> 5, priority |-> "medium"]

\* the cascade with the weather rule tried before the over-maturity rule
MakeDecisionRainFirst(maturity, ndviSig, weatherSig, priceSig, meta) ==
    IF weatherSig.status = "rain_risk"
    THEN [action |-> "wait", wait_days |-> 3,
          window_start |-> 3, window_end |-> 7, priority |-> "medium"]
    ELSE IF maturity.status = "over_mature"
    THEN [action |-> "urgent_harvest", wait_days |-> 0,
          window_start |-> 0, window_end |-> 2, priority |-> "critical"]
    ELSE [action |-> "harvest_now", wait_days |-> 0,
          window_start |-> 0, window_end |-> 5, priority |-> "medium"]

\* window: day offsets from today
MakeDecision(maturity, ndviSig, weatherSig, priceSig, meta) ==
    IF maturity.status = "over_mature"
    THEN IF weatherSig.status \in {"optimal", "fair"}
         THEN [action |-> "urgent_harvest", wait_days |-> 0,
               window_start |-> 0, window_end |-> 2, priority |-> "critical"]
         ELSE [action |-> "urgent_harvest", wait_days |-> 1,
               window_start |-> 1, window_end |-> 3, priority |-> "critical"]
    ELSE IF maturity.score < 500 /\ ndviSig.status # "harvest_ready"
    THEN LET wait == IF "days_to_maturity" \in DOMAIN maturity
                     THEN maturity.days_to_maturity ELSE 10
         IN  [action |-> "wait", wait_days |-> wait,
              window_start |-> Max(0, wait - 5), window_end |-> wait + 10,
              priority |-> "low"]
    ELSE IF weatherSig.status = "rain_risk"
    THEN [action |-> "wait", wait_days |-> 3,
          window_start |-> 3, window_end |-> 7, priority |-> "medium"]
    ELSE IF priceSig.status = "prices_rising" /\ maturity.status = "mature"
    THEN [action |-> "wait", wait_days |-> PriceWait(meta),
          window_start |-> 0, window_end |-> PriceWait(meta) + 3, priority |-> "low"]
    ELSE [action |-> "harvest_now", wait_days |-> 0,
          window_start |-> 0, window_end |-> 5, priority |-> "medium"]

\* hundredths
ComputeConfidence(maturity, ndviSig, weatherSig, soilSig) ==
    LET conf == 50
                + (IF maturity.status # "unknown" THEN 12 ELSE 0)
                + (IF ndviSig.status # "no_data" THEN 12 ELSE 0)
                + (IF weatherSig.status # "no_data" THEN 12 ELSE 0)
                + (IF soilSig.status # "no_data" THEN 8 ELSE 0)
    IN  Min(95, conf)

\* HarvestModel(db).predict(commodity, district, sowing_date, crop_age_days)
HarvestResult(r) ==
    LET crop_key == Lower(r.commodity)
        meta == IF crop_key \in DOMAIN cropMeta THEN cropMeta[crop_key] ELSE HarvestDefaultMeta
        age_days == CropAge(r.sowing_date, r.crop_age_days)
        maturity == AssessMaturity(age_days, meta)
        ndviSig == AssessNdvi(RowsOf(ndvi, r.district))
        weatherSig == AssessWeatherRisk(RowsOf(weather, r.district))
        priceSig == AssessPriceTiming(RowsOf(prices, r.district))
        soilSig == AssessSoilQuality(RowsOf(soil, r.district))
        decision == MakeDecision(maturity, ndviSig, weatherSig, priceSig, meta)
    IN  [op |-> "harvest", crop_age_days |-> age_days, meta |-> meta,
         action |-> decision.action, wait_days |-> decision.wait_days,
         window_start |-> decision.window_start, window_end |-> decision.window_end,
         priority |-> decision.priority,
         maturity |-> maturity, ndvi |-> ndviSig, weather |-> weatherSig,
         price |-> priceSig, soil |-> soilSig,
         confidence |-> ComputeConfidence(maturity, ndviSig, weatherSig, soilSig)]

HarvestPredict ==
    /\ req.op = "harvest"
    /\ dbUp
    /\ res = <<>>
    /\ res' = <<HarvestResult(req)>>
    /\ UNCHANGED <<cropMeta, weather, ndvi, soil, routes, prices, models, req, log, disk, procs, dbUp, trades, settlements>>

-----------------------------------------------------------------------------
(* DecisionComposer (decision_engine.py) *)

\* _clamp(value, lower, upper)
\* a clamp that forgets the upper bound
ClampLowerOnly(value, lower, upper) == Max(lower, value)

\* _clamp
Clamp(value, lower, upper) == Max(lower, Min(upper, value))

\* a test that takes no recommendation for a wait
StartsWithWaitNever(action) == FALSE

\* action.startswith("wait_") on the recommendation strings in use
StartsWithWait(action) == action \in {"wait_2_days", "wait_3_days", "wait_5_days"}

\* risk_score in thousandths; saves_percent of the three tiers (int() truncates)
BuildPreservationActions(risk_score) ==
    <<[rank |-> 1, cost |-> 0,
       saves_percent |-> Clamp(15000 + risk_score * 30, 12000, 45000) \div 1000],
      [rank |-> 2, cost |-> 450,
       saves_percent |-> Clamp(72000 + risk_score * 22, 70000, 90000) \div 1000],
      [rank |-> 3, cost |-> 780,
       saves_percent |-> Clamp(84000 + risk_score * 14, 82000, 96000) \div 1000]>>

\* the policy with the extreme-weather rule tried after the price rules
ComposeActionWeatherLast(direction, spoilage_category, extreme_weather, recommendation) ==
    IF direction = "rising" /\ spoilage_category = "low"
    THEN IF StartsWithWait(recommendation) THEN recommendation ELSE "wait_3_days"
    ELSE IF direction = "falling" \/ spoilage_category \in {"high", "critical"}
    THEN "sell_immediately"
    ELSE IF extreme_weather THEN "sell_immediately"
    ELSE recommendation

\* the action of the composed decision
ComposeAction(direction, spoilage_category, extreme_weather, recommendation) ==
    IF extreme_weather
    THEN "sell_immediately"
    ELSE IF direction = "rising" /\ spoilage_category = "low"
    THEN IF StartsWithWait(recommendation) THEN recommendation ELSE "wait_3_days"
    ELSE IF direction = "falling" \/ spoilage_category \in {"high", "critical"}
    THEN "sell_immediately"
    ELSE recommendation

\* combine_model_outputs(price_trend, harvest_window, spoilage_risk, features)
\* prices and costs in hundredths, distance in tenths of a km, confidences in thousandths
\* a distance test that counts 95 km itself as far
BestMandiFarInclusive(distance_km) == distance_km >= 950

\* distance_km > 95.0, in tenths of a kilometre
BestMandiFar(distance_km) == distance_km > 950

CombineModelOutputs(price_trend, harvest_window, spoilage_risk, features) ==
    LET direction == Lower(Get(price_trend.direction, "stable"))
        spoilage_category == Lower(Get(spoilage_risk.risk_category, "Medium"))
        risk_score == Get(spoilage_risk.risk_score, 500)
        extreme_weather == Get(features.extreme_weather_flag, FALSE)
        action == ComposeAction(direction, spoilage_category, extreme_weather,
                                Get(harvest_window.recommendation, "harvest_now"))
        best_mandi_name == Get(features.best_mandi_name, "Local Mandi")
        best_mandi_price == Get(features.best_mandi_price, 0)
        local_mandi_price == Get(features.local_mandi_price, best_mandi_price)
        distance_km == Get(features.estimated_distance_km, 280)
        transport_cost == Get(features.transport_cost_estimate, 0)
        \* thousandths: round(price * 0.96, 3), round(price * 1.04, 3)
        expected_price_range ==
            Get(price_trend.expected_price_range,
                <<RoundTo(best_mandi_price * 96, 10), RoundTo(best_mandi_price * 104, 10)>>)
        price_diff_per_quintal == Max(0, (best_mandi_price - local_mandi_price) * 100)
        best_mandi_far == BestMandiFar(distance_km)
        go_local == best_mandi_far /\ transport_cost > price_diff_per_quintal
        price_conf == Get(price_trend.confidence, 550)
        harvest_conf == Get(harvest_window.confidence, 600)
        spoilage_conf == Get(spoilage_risk.confidence, 620)
        \* the mean in thirds of a thousandth, clamped to [0.50, 0.95], rounded to 3 places
        overall == Clamp(price_conf + harvest_conf + spoilage_conf, 1500, 2850)
    IN  [op |-> "compose",
         action |-> action,
         market |-> IF go_local THEN "Local Mandi" ELSE best_mandi_name,
         expected_price_range |->
            IF go_local
            THEN <<RoundTo(local_mandi_price * 98, 10), RoundTo(local_mandi_price * 102, 10)>>
            ELSE expected_price_range,
         preservation_actions |-> BuildPreservationActions(risk_score),
         overall_confidence |-> (2 * overall + 3) \div 6]

Compose ==
    /\ req.op = "compose"
    /\ res = <<>>
    /\ res' = <<CombineModelOutputs(req.price_trend, req.harvest_window,
                                    req.spoilage_risk, req.features)>>
    /\ UNCHANGED <<cropMeta, weather, ndvi, soil, routes, prices, models, req, log, disk, procs, dbUp, trades, settlements>>

-----------------------------------------------------------------------------
(* SpoilageModel (ml/spoilage_model.py) *)

\* multipliers in tenths
StorageMultiplier(storage_type) ==
    CASE storage_type = "open_air" -> 15
      [] storage_type = "covered" -> 12
      [] storage_type = "cold_storage" -> 4
      [] storage_type = "controlled_atm" -> 2
      [] OTHER -> 10

PackagingMultiplier(packaging) ==
    CASE packaging = "none" -> 13
      [] packaging = "jute_bag" -> 10
      [] packaging = "plastic_crate" -> 8
      [] packaging = "corrugated_box" -> 7
      [] packaging = "vacuum_pack" -> 4
      [] OTHER -> 10

\* meta used by SpoilageModel.predict for a crop that is not cached
SpoilageDefaultMeta ==
    [shelf_life_days |-> 7, fao_loss_pct |-> 150,
     optimal_temp_min |-> 100, optimal_temp_max |-> 250,
     optimal_humidity_min |-> 600, optimal_humidity_max |-> 800,
     category |-> "vegetable"]

\* the largest r in lo..hi with r * r <= v (lo * lo <= v assumed)
RECURSIVE ISqrtIn(_, _, _)
ISqrtIn(v, lo, hi) ==
    IF lo >= hi THEN lo
    ELSE LET mid == (lo + hi + 1) \div 2
         IN  IF mid * mid <= v THEN ISqrtIn(v, mid, hi) ELSE ISqrtIn(v, lo, mid - 1)

\* rows: weather rows of the district, newest first (the query keeps 3).
\* min(1, (deviation / 10) ** 1.5) in thousandths, rounded down.
ComputeTempFactor(rows, meta) ==
    IF rows = <<>> THEN 300
    ELSE LET recent == Take(rows, 3)
             n == Len(recent)
             sum_temp == SumSeq([i \in 1..n |-> Or(recent[i].temp_avg, 300)])
             opt_min == meta.optimal_temp_min
             opt_max == meta.optimal_temp_max
             \* n times the deviation, in tenths of a degree
             dev == IF sum_temp > opt_max * n THEN sum_temp - opt_max * n
                    ELSE opt_min * n - sum_temp
         IN  IF opt_min * n <= sum_temp /\ sum_temp <= opt_max * n THEN 0
             ELSE IF dev >= 100 * n THEN 1000
             ELSE ISqrtIn((dev * dev * dev) \div (n * n * n), 0, 1000)

ComputeHumidityFactor(rows, meta) ==
    IF rows = <<>> THEN 200
    ELSE LET recent == Take(rows, 3)
             n == Len(recent)
             sum_hum == SumSeq([i \in 1..n |-> Or(recent[i].humidity, 600)])
             opt_min == meta.optimal_humidity_min
             opt_max == meta.optimal_humidity_max
         IN  IF opt_min * n <= sum_hum /\ sum_hum <= opt_max * n THEN 0
             ELSE IF sum_hum > opt_max * n
             THEN Min(1000, (5 * (sum_hum - opt_max * n)) \div n)
             ELSE Min(1000, (10 * (opt_min * n - sum_hum)) \div (3 * n))

\* the route origin -> destination, else destination -> origin: <<route>> or <<>>
FindRoute(origin, destination) ==
    LET fwd == { r \in routes : r.origin = origin /\ r.destination = destination }
        rev == { r \in routes : r.origin = destination /\ r.destination = origin }
    IN  IF fwd # {} THEN <<CHOOSE r \in fwd : TRUE>>
        ELSE IF rev # {} THEN <<CHOOSE r \in rev : TRUE>>
        ELSE <<>>

\* destination "" stands for None and for the empty string (both falsy).
\* hours in tenths, spoilage rate in hundredths of a percent per hour, distance in km.
ComputeTransitFactor(origin, destination) ==
    IF destination = "" THEN 200
    ELSE LET found == FindRoute(Lower(origin), Lower(destination))
         IN  IF found = <<>> THEN 250
             ELSE LET route == found[1]
                      hours == Or(route.typical_hours, 40)
                      time_stress == Max(0, 5 * hours - 200)
                      road_factor == Or(route.spoilage_rate_pct_per_hr, 0)
                      distance_factor == Min(300, (3 * Or(route.distance_km, 100)) \div 5)
                  IN  Min(1000, time_stress + (road_factor * hours) \div 100 + distance_factor)

\* a decay score that falls back once the shelf life is over
ComputeTimeFactorDip(days_since_harvest, shelf_life) ==
    IF shelf_life <= 0 THEN 500
    ELSE IF days_since_harvest < shelf_life THEN 800
    ELSE 200

ComputeTimeFactor(days_since_harvest, shelf_life) ==
    IF shelf_life <= 0 THEN 500
    ELSE IF 10 * days_since_harvest < 3 * shelf_life THEN 0
    ELSE IF 10 * days_since_harvest < 6 * shelf_life THEN 200
    ELSE IF 10 * days_since_harvest < 8 * shelf_life THEN 500
    ELSE IF days_since_harvest < shelf_life THEN 800
    ELSE 1000

\* rows: NDVI rows of the district, newest first
ComputeHealthFactor(rows) ==
    IF rows = <<>> THEN 100
    ELSE LET ndvi_val == Or(rows[1].ndvi_value, 500)
         IN  IF ndvi_val > 600 THEN 0
             ELSE IF ndvi_val > 400 THEN 200
             ELSE IF ndvi_val > 250 THEN 500
             ELSE 800

\* base_rate * env_multiplier * storage_mult * packaging_mult * 100, in millionths
\* of a percent; fao_loss_pct in tenths of a percent, factors in thousandths
EffectiveRatePct(fao_loss_pct, temp, humidity, transit, time, health, storage_mult, packaging_mult) ==
    LET x0 == fao_loss_pct * 100000
        x1 == MulDiv(x0, 10000 + 4 * temp, 10000)
        x2 == MulDiv(x1, 10000 + 2 * humidity, 10000)
        x3 == MulDiv(x2, 10000 + 2 * transit, 10000)
        x4 == MulDiv(x3, 20000 + 3 * time, 20000)
        x5 == MulDiv(x4, 20000 + health, 20000)
        x6 == MulDiv(x5, storage_mult, 10)
    IN  MulDiv(x6, packaging_mult, 10)

\* the percentage left as computed
ClampPctNone(pct) == pct

\* max(0.0, min(100.0, effective_rate * 100)), in millionths of a percent
ClampPct(pct) == Max(0, Min(100000000, pct))

\* risk classification of the unrounded percentage (millionths of a percent)
RiskLevel(spoilage_pct) ==
    IF spoilage_pct < 8000000 THEN "Low"
    ELSE IF spoilage_pct < 20000000 THEN "Medium"
    ELSE IF spoilage_pct < 40000000 THEN "High"
    ELSE "Critical"

\* the tips, in order, named by their subject
GenerateRecommendations(meta, temp, humidity, transit, storage_type, packaging, spoilage_pct) ==
    LET tips ==
            (IF temp > 300 THEN <<"temperature">> ELSE <<>>)
         \o (IF humidity > 300 THEN <<"humidity">> ELSE <<>>)
         \o (IF transit > 300 THEN <<"transit">> ELSE <<>>)
         \o (IF storage_type = "open_air" THEN <<"storage_open_air">>
             ELSE IF storage_type = "covered" /\ spoilage_pct > 15000000
                  THEN <<"storage_cold">> ELSE <<>>)
         \o (IF packaging \in {"none", "jute_bag"} /\ spoilage_pct > 10000000
             THEN <<"packaging">> ELSE <<>>)
         \o (IF spoilage_pct > 30000000 THEN <<"critical">> ELSE <<>>)
         \o (IF meta.category = "leafy_green" THEN <<"leafy_green">>
             ELSE IF meta.category = "fruit" THEN <<"fruit">> ELSE <<>>)
    IN  IF tips # <<>> THEN tips ELSE <<"favorable">>

\* SpoilageModel(db).predict(...): spoilage_pct reported in hundredths of a percent
SpoilageResult(commodity, district, destination_market, storage_type, packaging, harvest_days_ago, quantity_kg) ==
    LET crop_key == Lower(commodity)
        meta == IF crop_key \in DOMAIN cropMeta THEN cropMeta[crop_key] ELSE SpoilageDefaultMeta
        temp_factor == ComputeTempFactor(RowsOf(weather, district), meta)
        humidity_factor == ComputeHumidityFactor(RowsOf(weather, district), meta)
        transit_factor == ComputeTransitFactor(district, destination_market)
        time_factor == ComputeTimeFactor(harvest_days_ago, meta.shelf_life_days)
        health_factor == ComputeHealthFactor(RowsOf(ndvi, district))
        storage_mult == StorageMultiplier(storage_type)
        packaging_mult == PackagingMultiplier(packaging)
        spoilage_pct == ClampPct(EffectiveRatePct(meta.fao_loss_pct, temp_factor,
                            humidity_factor, transit_factor, time_factor, health_factor,
                            storage_mult, packaging_mult))
    IN  [op |-> "spoilage",
         spoilage_pct |-> RoundTo(spoilage_pct, 10000),
         risk_level |-> RiskLevel(spoilage_pct),
         loss_estimate_kg |-> RoundTo(MulDiv(spoilage_pct \div 100, quantity_kg, 10000), 10),
         shelf_life_remaining_days |-> Max(0, meta.shelf_life_days - harvest_days_ago),
         fao_baseline_pct |-> meta.fao_loss_pct,
         factors |-> [temperature |-> temp_factor, humidity |-> humidity_factor,
                      transit |-> transit_factor, time_decay |-> time_factor,
                      crop_health |-> health_factor,
                      storage_multiplier |-> storage_mult,
                      packaging_multiplier |-> packaging_mult],
         recommendations |-> GenerateRecommendations(meta, temp_factor, humidity_factor,
                                 transit_factor, storage_type, packaging, spoilage_pct),
         confidence |-> IF meta.category # "" THEN 72 ELSE 55]

SpoilagePredict ==
    /\ req.op = "spoilage"
    /\ dbUp
    /\ res = <<>>
    /\ res' = <<SpoilageResult(req.commodity, req.district, req.destination_market,
                               req.storage_type, req.packaging, req.harvest_days_ago,
                               req.quantity_kg)>>
    /\ UNCHANGED <<cropMeta, weather, ndvi, soil, routes, prices, models, req, log, disk, procs, dbUp, trades, settlements>>

-----------------------------------------------------------------------------
(* PricePredictor (ml/price_predictor.py) *)
(* Modal prices and forecasts are in hundredths of a rupee; prices[d] holds   *)
(* the commodity's modal prices in district d, one a day, oldest first, the   *)
(* last one today's. Floating-point values are carried at that precision.    *)

\* round(a / b) for b > 0
RoundDiv(a, b) == (2 * a + b) \div (2 * b)

\* model.predict(features)[0]: a stored regressor is an opaque function of the
\* feature vector; it is represented by [base, slope_pct] and answers
\* base + slope_pct % of lag_1
ModelPredict(model, lag_1) == model.base + (lag_1 * model.slope_pct) \div 100

\* rows with arrival_date >= today - 60, oldest first
Window60(plist) == LastN(plist, 61)

\* the modal prices recorded `day` days ago, districts in the order tie
DayRows(day, tie) ==
    LET have == SelectSeq(tie, LAMBDA d : Len(prices[d]) > day)
    IN  [i \in 1..Len(have) |-> prices[have[i]][Len(prices[have[i]]) - day]]

\* the commodity's rows of every district ordered by arrival_date descending;
\* the order of rows of one date is the database's choice (tie)
RECURSIVE NewestFirst(_, _)
NewestFirst(day, tie) ==
    IF \A d \in DOMAIN prices : Len(prices[d]) <= day THEN <<>>
    ELSE DayRows(day, tie) \o NewestFirst(day + 1, tie)

\* PricePredictor._statistical_forecast; confidence in hundredths
StatisticalForecast(commodity, forecast_days, tie) ==
    LET rows == Take(NewestFirst(0, tie), 30)
        crop == Lower(commodity)
        has_base == crop \in DOMAIN cropMeta /\ cropMeta[crop].base_price \notin {Null, 0}
        \* base_price = num / den
        num == IF rows # <<>> THEN SumSeq(rows)
               ELSE IF has_base THEN cropMeta[crop].base_price * 100
               ELSE 200000
        den == IF rows # <<>> THEN Len(rows) ELSE 1
        Forecast(day) ==
            LET predicted == RoundDiv(num * (100 + ((day % 3) - 1)), 100 * den)
            IN  [predicted_price |-> predicted,
                 ci_low |-> RoundDiv(predicted * 92, 100),
                 ci_high |-> RoundDiv(predicted * 108, 100),
                 day_offset |-> day]
    IN  [op |-> "price", error |-> "",
         current_price |-> RoundDiv(num, den),
         forecasts |-> [day \in 1..forecast_days |-> Forecast(day)],
         direction |-> "stable",
         pct_change_forecast |-> 0,
         confidence |-> 35,
         model_version |-> "statistical_fallback",
         data_points_used |-> Len(rows),
         source |-> "statistical_fallback"]

\* one pass of the forecast loop of predict: momentum and volatility in thousandths
ForecastDay(current_prices, model, day_offset) ==
    LET n == Len(current_prices)
        lag_1 == current_prices[n]
        window_7 == LastN(current_prices, 7)
        s7 == SumSeq(window_7)
        k21 == Min(21, n)
        s21 == SumSeq(LastN(current_prices, 21))
        momentum == IF s21 > 0 THEN RoundDiv((s7 * k21 - 7 * s21) * 1000, 7 * s21) ELSE 0
        \* std_7 / mean_7 = sqrt(sum (7 p - s7)^2 / 7) / s7
        q == SumSeq([i \in 1..Len(window_7) |->
                        (7 * window_7[i] - s7) * (7 * window_7[i] - s7)])
        volatility == IF s7 > 0 THEN (1000 * ISqrtIn(q \div 7, 0, 46340)) \div s7 ELSE 0
        predicted == IF model # <<>> THEN ModelPredict(model[1], lag_1)
                     ELSE RoundDiv(s7 * (10000 + 3 * momentum), 70000)
        uncertainty == Max((predicted * volatility) \div 1000, (predicted * 30) \div 1000)
    IN  [predicted_price |-> predicted,
         ci_low |-> predicted - 2 * uncertainty,
         ci_high |-> predicted + 2 * uncertainty,
         day_offset |-> day_offset]

\* the forecast loop: each prediction is fed back as the next day's lag
RECURSIVE Forecasts(_, _, _, _)
Forecasts(current_prices, model, day_offset, forecast_days) ==
    IF day_offset > forecast_days THEN <<>>
    ELSE LET f == ForecastDay(current_prices, model, day_offset)
         IN  <<f>> \o Forecasts(Append(current_prices, f.predicted_price), model,
                                day_offset + 1, forecast_days)

\* a laxer test: the regular path is taken from 7 records on
InsufficientHistory7(price_list) == Len(price_list) < 7

\* len(prices) < 14
InsufficientHistory(price_list) == Len(price_list) < 14

\* PricePredictor.predict with self.models = store; pct_change_forecast in
\* hundredths of a percent, confidence in hundredths
PredictWith(store, commodity, district, forecast_days, tie) ==
    LET model == IF Lower(commodity) \in DOMAIN store THEN store[Lower(commodity)] ELSE <<>>
        price_list == Window60(RowsOf(prices, district))
    IN  IF InsufficientHistory(price_list)
        THEN StatisticalForecast(commodity, forecast_days, tie)
        ELSE LET forecasts == Forecasts(price_list, model, 1, forecast_days)
                 start_price == price_list[Len(price_list)]
                 end_price == forecasts[Len(forecasts)].predicted_price
                 confidence == IF model # <<>> THEN 75 ELSE 55
             IN  IF forecasts # <<>> /\ start_price = 0
                 THEN [op |-> "price", error |-> "ZeroDivisionError"]
                 ELSE [op |-> "price", error |-> "",
                       current_price |-> start_price,
                       forecasts |-> forecasts,
                       direction |->
                           IF forecasts = <<>> THEN "stable"
                           ELSE IF (end_price - start_price) * 100 > 3 * start_price
                                THEN "rising"
                           ELSE IF (end_price - start_price) * 100 < (0 - 3) * start_price
                                THEN "falling"
                           ELSE "stable",
                       pct_change_forecast |->
                           IF forecasts = <<>> THEN 0
                           ELSE RoundDiv((end_price - start_price) * 10000, start_price),
                       confidence |-> IF Len(price_list) > 60
                                      THEN Min(90, confidence + 10) ELSE confidence,
                       model_version |-> IF model # <<>> THEN "1.0.0"
                                         ELSE "statistical_fallback",
                       data_points_used |-> Len(price_list),
                       source |-> IF model # <<>> THEN "ml_model" ELSE "statistical"]

\* PricePredictor(db).predict(commodity, district, forecast_days)
PricePredict ==
    /\ req.op = "price"
    /\ dbUp
    /\ res = <<>>
    /\ \E tie \in TieOrders :
          res' = <<PredictWith(models, req.commodity, req.district, req.forecast_days, tie)>>
    /\ UNCHANGED <<cropMeta, weather, ndvi, soil, routes, prices, models, req, log, disk, procs, dbUp, trades, settlements>>

\* the rows train reads, ordered by arrival_date ascending: those of one
\* district, or of every district when no district is given (None is "")
TrainRows(district, tie) ==
    IF district = "" THEN LET newest == NewestFirst(0, tie)
                          IN  [i \in 1..Len(newest) |-> newest[Len(newest) + 1 - i]]
    ELSE RowsOf(prices, district)

\* the targets y of PricePredictor._extract_features: nothing from fewer than
\* 35 rows, otherwise one feature row for each row after the first 30 (the
\* date of a row comes from a DATE column, so no row is skipped as unparsable)
ExtractTargets(price_list) ==
    IF Len(price_list) < 35 THEN <<>>
    ELSE [i \in 1..(Len(price_list) - 30) |-> price_list[i + 30]]

\* GradientBoostingRegressor(random_state=42).fit(X, y): a deterministic
\* function of the training data; it is represented by the regressor that
\* answers the mean of the targets
Fit(y) == [base |-> RoundDiv(SumSeq(y), Len(y)), slope_pct |-> 0]

\* a laxer test: five feature rows are enough
EnoughSamples5(n) == ~(n < 5)

\* not (len(X) < 50)
EnoughSamples(n) == ~(n < 50)

\* mean absolute error of the fitted regressor on the targets, standing for
\* the cross-validated mae; mape in hundredths of a percent, a zero target
\* counted as the smallest price
MeanAbsError(model, y) ==
    RoundDiv(SumSeq([i \in 1..Len(y) |->
                IF y[i] < ModelPredict(model, y[i]) THEN ModelPredict(model, y[i]) - y[i]
                ELSE y[i] - ModelPredict(model, y[i])]), Len(y))

MeanAbsPctError(model, y) ==
    RoundDiv(SumSeq([i \in 1..Len(y) |->
                RoundDiv(10000 * (IF y[i] < ModelPredict(model, y[i])
                                  THEN ModelPredict(model, y[i]) - y[i]
                                  ELSE y[i] - ModelPredict(model, y[i])),
                         Max(y[i], 1))]), Len(y))

\* the return value of PricePredictor.train
TrainResult(commodity, y) ==
    IF ~EnoughSamples(Len(y))
    THEN [op |-> "train", status |-> "insufficient_data", samples |-> Len(y)]
    ELSE [op |-> "train", status |-> "trained", commodity |-> commodity,
          samples |-> Len(y),
          mae |-> MeanAbsError(Fit(y), y),
          mape |-> MeanAbsPctError(Fit(y), y),
          model_version |-> "1.0.0"]

\* a store update that puts the fitted model under every commodity
TrainStoreAll(store, commodity, y) ==
    IF ~EnoughSamples(Len(y)) THEN store
    ELSE [c \in DOMAIN store \cup {Lower(commodity)} |-> <<Fit(y)>>]

\* the model store after train: self.models[commodity.lower()] = final_model
\* and _save_model, reached only with enough samples
TrainStore(store, commodity, y) ==
    IF ~EnoughSamples(Len(y)) THEN store
    ELSE [c \in DOMAIN store \cup {Lower(commodity)} |->
            IF c = Lower(commodity) THEN <<Fit(y)>> ELSE store[c]]

\* PricePredictor(db).train(commodity, district)
Train ==
    /\ req.op = "train"
    /\ dbUp
    /\ res = <<>>
    /\ \E tie \in TieOrders :
          /\ res' = <<TrainResult(req.commodity, ExtractTargets(TrainRows(req.district, tie)))>>
          /\ models' = TrainStore(models, req.commodity, ExtractTargets(TrainRows(req.district, tie)))
    /\ UNCHANGED <<cropMeta, weather, ndvi, soil, routes, prices, req, log, disk, procs, dbUp, trades, settlements>>

-----------------------------------------------------------------------------
(* RecommendationEngine (ml/recommendation_engine.py) *)
(* Money is in hundredths of a rupee, quantities in whole quintals.           *)

DEFAULT_MANDIS ==
    [d \in {"nashik", "pune", "nagpur", "ahmednagar", "solapur", "kolhapur",
            "aurangabad", "jalgaon", "amravati", "sangli"} |->
        CASE d = "nashik" -> <<"nashik", "pune", "mumbai">>
          [] d = "pune" -> <<"pune", "mumbai", "solapur">>
          [] d = "nagpur" -> <<"nagpur", "amravati", "akola">>
          [] d = "ahmednagar" -> <<"ahmednagar", "pune", "nashik">>
          [] d = "solapur" -> <<"solapur", "pune", "kolhapur">>
          [] d = "kolhapur" -> <<"kolhapur", "pune", "sangli">>
          [] d = "aurangabad" -> <<"aurangabad", "nashik", "pune">>
          [] d = "jalgaon" -> <<"jalgaon", "nashik", "nagpur">>
          [] d = "amravati" -> <<"amravati", "nagpur", "akola">>
          [] d = "sangli" -> <<"sangli", "kolhapur", "pune">>]

\* the candidate mandis of recommend; target_mandis <<>> stands for None and
\* for the empty list (both falsy)
Candidates(origin, target_mandis) ==
    IF target_mandis # <<>>
    THEN [i \in 1..Len(target_mandis) |-> Lower(target_mandis[i])]
    ELSE LET known == IF origin \in DOMAIN DEFAULT_MANDIS
                      THEN DEFAULT_MANDIS[origin] ELSE <<origin>>
         IN  IF \E i \in 1..Len(known) : known[i] = origin
             THEN known ELSE <<origin>> \o known

\* a truck count that leaves a part load behind
TrucksNeededFloor(quantity_kg) == Max(1, quantity_kg \div 3000)

\* max(1, math.ceil(quantity_kg / 3000))
TrucksNeeded(quantity_kg) == Max(1, (quantity_kg + 2999) \div 3000)

\* RecommendationEngine._get_transport_cost; fuel_cost_per_km in tenths of a rupee
GetTransportCost(origin, destination, quantity_kg) ==
    IF origin = destination
    THEN [distance_km |-> 0, fuel_cost |-> 0, total_cost |-> 20000, trucks |-> 0]
    ELSE LET found == FindRoute(origin, destination)
             trucks_needed == TrucksNeeded(quantity_kg)
         IN  IF found # <<>>
             THEN LET distance == Or(found[1].distance_km, 100)
                      fuel_per_km == Or(found[1].fuel_cost_per_km, 80)
                      fuel_cost == distance * fuel_per_km * 10 * trucks_needed
                  IN  [distance_km |-> distance, fuel_cost |-> fuel_cost,
                       total_cost |-> fuel_cost + 50000 * trucks_needed,
                       trucks |-> trucks_needed]
             ELSE [distance_km |-> 150,
                   fuel_cost |-> 150 * 8 * trucks_needed * 100,
                   total_cost |-> 150 * 8 * trucks_needed * 100 + 50000,
                   trucks |-> trucks_needed]

\* the entry _evaluate_mandi builds from the forecast, the transport cost and
\* the spoilage assessment of a candidate; rank is set by recommend
MandiEntry(price_forecast, transport, spoilage, origin, destination, quantity_quintals) ==
    IF price_forecast.error # "" THEN [error |-> price_forecast.error]
    ELSE
    LET forecasts == price_forecast.forecasts
        \* avg_predicted_price = sum_price / n_price
        sum_price == IF forecasts # <<>>
                     THEN SumSeq([i \in 1..Len(forecasts) |-> forecasts[i].predicted_price])
                     ELSE price_forecast.current_price
        n_price == IF forecasts # <<>> THEN Len(forecasts) ELSE 1
        spoilage_pct == spoilage.spoilage_pct
        \* revenue - spoilage_loss_value in tenths of the money unit
        kept == MulDiv(sum_price * quantity_quintals, 10000 - spoilage_pct, 1000 * n_price)
    IN  [error |-> "",
         mandi |-> destination,
         predicted_price_per_quintal |-> RoundDiv(sum_price, n_price),
         price_trend |-> price_forecast.direction,
         price_confidence |-> price_forecast.confidence,
         revenue_inr |-> RoundDiv(sum_price * quantity_quintals, n_price),
         transport |-> transport,
         spoilage |-> [risk_level |-> spoilage.risk_level,
                       loss_pct |-> spoilage_pct,
                       loss_value_inr |->
                           RoundTo(MulDiv(sum_price * quantity_quintals, spoilage_pct,
                                          1000 * n_price), 10)],
         net_profit_inr |-> RoundTo(kept - 10 * transport.total_cost, 10),
         is_local |-> origin = destination,
         rank |-> 0]

\* RecommendationEngine._evaluate_mandi
EvaluateMandi(commodity, origin, destination, quantity_quintals, storage_type, packaging, forecast_days, tie) ==
    MandiEntry(PredictWith(models, commodity, destination, forecast_days, tie),
               GetTransportCost(origin, destination, quantity_quintals * 100),
               SpoilageResult(commodity, origin, destination, storage_type, packaging,
                              0, quantity_quintals * 100),
               origin, destination, quantity_quintals)

\* an entry placed before the entries whose net profit equals its own
RECURSIVE InsertBeforeTies(_, _)
InsertBeforeTies(x, sorted) ==
    IF sorted = <<>> THEN <<x>>
    ELSE IF sorted[1].net_profit_inr > x.net_profit_inr
         THEN <<sorted[1]>> \o InsertBeforeTies(x, Tail(sorted))
         ELSE <<x>> \o sorted

\* an entry placed behind the entries whose net profit is at least its own
RECURSIVE InsertByNetProfit(_, _)
InsertByNetProfit(x, sorted) ==
    IF sorted = <<>> THEN <<x>>
    ELSE IF sorted[1].net_profit_inr >= x.net_profit_inr
         THEN <<sorted[1]>> \o InsertByNetProfit(x, Tail(sorted))
         ELSE <<x>> \o sorted

\* mandi_results.sort(key=net_profit_inr, reverse=True): a stable sort
RECURSIVE SortByNetProfit(_)
SortByNetProfit(results) ==
    IF results = <<>> THEN <<>>
    ELSE InsertByNetProfit(results[Len(results)],
                           SortByNetProfit(SubSeq(results, 1, Len(results) - 1)))

\* the parts of the summary of _generate_summary, in order
GenerateSummary(results) ==
    IF results = <<>> THEN <<"no_data">>
    ELSE LET best == results[1]
             local == SelectSeq(results, LAMBDA r : r.is_local)
         IN  <<"best">>
          \o (IF Len(results) > 1 THEN <<"saves">> ELSE <<>>)
          \o (IF /\ local # <<>> /\ local[1].rank # 1
                 /\ best.net_profit_inr - local[1].net_profit_inr > 0
              THEN <<"beats_local">> ELSE <<>>)
          \o (IF \E i \in 1..Len(results) :
                     results[i].spoilage.risk_level \in {"High", "Critical"}
              THEN <<"spoilage_warning">> ELSE <<>>)

\* the error of the first candidate whose evaluation raises, "" when none does
FirstError(evaluated) ==
    IF \A i \in 1..Len(evaluated) : evaluated[i].error = "" THEN ""
    ELSE evaluated[CHOOSE i \in 1..Len(evaluated) :
                      /\ evaluated[i].error # ""
                      /\ \A j \in 1..(i - 1) : evaluated[j].error = ""].error

\* result["rank"] = i + 1
AssignRanks(sorted) == [i \in 1..Len(sorted) |-> [sorted[i] EXCEPT !.rank = i]]

\* the dictionary recommend returns
Ranking(mandi_results) ==
    [op |-> "mandi", error |-> "",
     recommendations |-> mandi_results,
     best_mandi |-> IF mandi_results # <<>> THEN mandi_results[1].mandi ELSE "",
     best_net_profit |-> IF mandi_results # <<>> THEN mandi_results[1].net_profit_inr ELSE 0,
     total_mandis_evaluated |-> Len(mandi_results),
     reasoning |-> GenerateSummary(mandi_results)]

\* recommend once every candidate is evaluated
RankEvaluated(evaluated) ==
    IF FirstError(evaluated) # ""
    THEN [op |-> "mandi", error |-> FirstError(evaluated)]
    ELSE Ranking(AssignRanks(SortByNetProfit(evaluated)))

\* the loop of recommend over the candidates
EvaluateAll(commodity, origin, candidates, quantity_quintals, storage_type, packaging, forecast_days, tie) ==
    [i \in 1..Len(candidates) |->
        EvaluateMandi(commodity, origin, candidates[i], quantity_quintals,
                      storage_type, packaging, forecast_days, tie)]

\* RecommendationEngine.recommend
RecommendResult(commodity, origin_district, quantity_quintals, storage_type, packaging, target_mandis, forecast_days, tie) ==
    RankEvaluated(EvaluateAll(Lower(commodity), Lower(origin_district),
                              Candidates(Lower(origin_district), target_mandis),
                              quantity_quintals, storage_type, packaging,
                              forecast_days, tie))

\* RecommendationEngine(db).recommend(...)
Recommend ==
    /\ req.op = "mandi"
    /\ dbUp
    /\ res = <<>>
    /\ \E tie \in TieOrders :
          res' = <<RecommendResult(req.commodity, req.origin_district,
                                   req.quantity_quintals, req.storage_type, req.packaging,
                                   req.target_mandis, req.forecast_days, tie)>>
    /\ UNCHANGED <<cropMeta, weather, ndvi, soil, routes, prices, models, req, log, disk, procs, dbUp, trades, settlements>>

-----------------------------------------------------------------------------
(* Inputs of the model: table contents and call arguments *)

MaxWeather == 2       \* weather rows per district
MaxAgeSteps == 19     \* crop ages 0, AgeStep, ..., MaxAgeSteps * AgeStep
AgeStep == 8
MaxDays == 25         \* harvest_days_ago 0..MaxDays
MaxForecastDays == 3  \* forecast_days 0..MaxForecastDays

\* weather rows: temp_avg, humidity, rainfall_mm, wind_speed (tenths; Null = NULL)
WeatherRows ==
    { [temp_avg |-> 30, humidity |-> 670, rainfall_mm |-> 0, wind_speed |-> 20],
      [temp_avg |-> 350, humidity |-> 400, rainfall_mm |-> 0, wind_speed |-> 40],
      [temp_avg |-> 280, humidity |-> 900, rainfall_mm |-> 250, wind_speed |-> 10],
      [temp_avg |-> Null, humidity |-> Null, rainfall_mm |-> Null, wind_speed |-> Null] }

\* sequences over S of length at most n
SeqsUpTo(S, n) == UNION { [1..k -> S] : k \in 0..n }

WeatherTables == { OnlyFor("nashik", w) : w \in SeqsUpTo(WeatherRows, MaxWeather) }

\* NDVI rows: ndvi_value (thousandths), trend_30d (ten-thousandths per day), growth_plateau
NdviRows ==
    { [ndvi_value |-> 700, trend_30d |-> 0, growth_plateau |-> TRUE],
      [ndvi_value |-> 450, trend_30d |-> Null, growth_plateau |-> FALSE],
      [ndvi_value |-> 300, trend_30d |-> 200, growth_plateau |-> FALSE],
      [ndvi_value |-> 200, trend_30d |-> 0 - 200, growth_plateau |-> FALSE] }

NdviTables == { OnlyFor("nashik", n) : n \in {<<>>} \cup { <<r>> : r \in NdviRows } }

\* SOIL_PROFILE_SEED row of nashik
SeedSoilNashik ==
    [ph |-> 78, organic_carbon_pct |-> 52, nitrogen_kg_ha |-> 210, soil_quality_index |-> 610]

SoilTables == { OnlyFor("nashik", <<>>), OnlyFor("nashik", <<SeedSoilNashik>>) }

\* n daily prices starting at base and changing by step a day
PriceSeries(n, base, step) == [i \in 1..n |-> base + step * (i - 1)]

NoTable == [x \in Districts |-> <<>>]
NoModels == [c \in {"onion", "tomato", "grape", "ragi"} |-> <<>>]

-----------------------------------------------------------------------------
(* Specification of the harvest-window optimizer *)

HarvestAges == { AgeStep * i : i \in 0..MaxAgeSteps }

HarvestRequests ==
    { [op |-> "harvest", commodity |-> c, district |-> "Nashik",
       sowing_date |-> <<>>, crop_age_days |-> a] :
         c \in {"Onion", "grape", "ragi"}, a \in HarvestAges \cup {Null} }
    \cup
    { [op |-> "harvest", commodity |-> "Onion", district |-> "Nashik",
       sowing_date |-> sd, crop_age_days |-> a] :
         sd \in {<<"invalid">>, <<"iso", 150>>, <<"iso", 0 - 3>>}, a \in {Null, 120} }

HarvestPriceTables ==
    { OnlyFor("nashik", p) :
        p \in { PriceSeries(4, 2000, 0), PriceSeries(10, 2000, 0),
                PriceSeries(10, 2000, 50), PriceSeries(10, 2000, 0 - 50) } }

\* the seeded crop table, and the table with a crop that keeps for one day
\* or not at all
HarvestCropTables ==
    { SeedCropMeta } \cup
    { [SeedCropMeta EXCEPT !["grape"].shelf_life_days = d] : d \in {0, 1} }

\* the tables differ in the grape row only and are paired with the requests
\* that read it
InitHarvest ==
    /\ cropMeta \in HarvestCropTables
    /\ weather \in WeatherTables
    /\ ndvi \in NdviTables
    /\ soil \in SoilTables
    /\ routes = {}
    /\ prices \in HarvestPriceTables
    /\ models = NoModels
    /\ req \in HarvestRequests
    /\ (cropMeta # SeedCropMeta => Lower(req.commodity) = "grape")
    /\ res = <<>>
    /\ log = <<>>
    /\ disk = <<>>
    /\ procs = <<>>
    /\ dbUp = TRUE
    /\ trades = <<>>
    /\ settlements = <<>>

NextHarvest == HarvestPredict

SpecHarvest == InitHarvest /\ [][NextHarvest]_vars

\* C1: whenever the maturity signal of a harvest decision is over_mature, its
\* action is urgent_harvest, whatever the NDVI, weather, price and soil signals
\* and the crop metadata are.
C1_OverMatureUrgent ==
    (res # <<>> /\ res[1].op = "harvest" /\ res[1].maturity.status = "over_mature")
        => res[1].action = "urgent_harvest"

\* an over-mature crop with rising prices and rain: the price and rain rules lose
C1_Witness ==
    /\ res # <<>> /\ res[1].op = "harvest"
    /\ res[1].maturity.status = "over_mature"
    /\ res[1].price.status = "prices_rising"
    /\ res[1].weather.status = "rain_risk"
    /\ res[1].meta = SeedOnion
    /\ res[1].action = "urgent_harvest"

C21_ConfidenceFormula ==
    (res # <<>> /\ res[1].op = "harvest")
        => res[1].confidence =
              Max(0, Min(95,
                  50 + (IF res[1].maturity.status # "unknown" THEN 12 ELSE 0)
                     + (IF res[1].ndvi.status # "no_data" THEN 12 ELSE 0)
                     + (IF res[1].weather.status # "no_data" THEN 12 ELSE 0)
                     + (IF res[1].soil.status # "no_data" THEN 8 ELSE 0)
                     - (IF /\ res[1].maturity.status \notin {"mature", "over_mature"}
                           /\ res[1].ndvi.status # "harvest_ready"
                        THEN 8 ELSE 0)))

\* an immature crop with every signal available: confidence 0.94, nothing
\* is taken off
C21_Witness ==
    /\ res # <<>> /\ res[1].op = "harvest"
    /\ res[1].maturity.status = "immature"
    /\ res[1].ndvi.status \notin {"no_data", "harvest_ready"}
    /\ res[1].weather.status # "no_data"
    /\ res[1].soil.status # "no_data"
    /\ res[1].confidence = 94

\* C28: the optimizer never answers harvest_now for a crop whose age is known
\* and below the crop's minimum maturity days, unless the NDVI signal is
\* harvest_ready, whatever the weather and price signals are.
C28_NoHarvestBeforeMaturity ==
    (/\ res # <<>> /\ res[1].op = "harvest"
     /\ res[1].crop_age_days # Null
     /\ res[1].crop_age_days < res[1].meta.maturity_days_min
     /\ res[1].ndvi.status # "harvest_ready")
        => res[1].action # "harvest_now"

\* a crop a few days short of its minimum maturity, approaching with a score
\* of 0.5 or more, NDVI not harvest_ready: harvest_now
C28_Witness ==
    /\ res # <<>> /\ res[1].op = "harvest"
    /\ res[1].crop_age_days # Null
    /\ res[1].crop_age_days < res[1].meta.maturity_days_min
    /\ res[1].maturity.status = "approaching"
    /\ res[1].maturity.score >= 500
    /\ res[1].ndvi.status # "harvest_ready"
    /\ res[1].action = "harvest_now"

\* C29: every harvest decision is consistent, for every combination of
\* signals and every crop metadata, a shelf life of 0 or 1 days included: a
\* wait waits at least one day, harvest_now waits 0 days, wait_days is never
\* negative, and the window does not end before it starts.
C29_DecisionConsistent ==
    (res # <<>> /\ res[1].op = "harvest")
        => /\ (res[1].action = "wait" => res[1].wait_days >= 1)
           /\ (res[1].action = "harvest_now" => res[1].wait_days = 0)
           /\ res[1].wait_days >= 0
           /\ res[1].window_start <= res[1].window_end

\* a mature crop that keeps for a day at most, prices rising, no rain: the
\* decision is to wait 0 days
C29_Witness ==
    /\ res # <<>> /\ res[1].op = "harvest"
    /\ res[1].meta.shelf_life_days \in {0, 1}
    /\ res[1].maturity.status = "mature"
    /\ res[1].price.status = "prices_rising"
    /\ res[1].action = "wait"
    /\ res[1].wait_days = 0

-----------------------------------------------------------------------------
(* Specification of the decision composer *)

ComposePriceTrends ==
    { [direction |-> d, confidence |-> c, expected_price_range |-> e] :
        d \in {<<>>, <<"Rising">>, <<"rising">>, <<"falling">>, <<"stable">>},
        c \in {<<>>, <<350>>, <<990>>},
        e \in {<<>>, << <<24500, 26000>> >>} }

ComposeHarvestWindows ==
    { [recommendation |-> r, confidence |-> c] :
        r \in {<<>>, <<"harvest_now">>, <<"wait_2_days">>, <<"wait_5_days">>},
        c \in {<<>>, <<940>>} }

ComposeSpoilageRisks ==
    { [risk_category |-> k, risk_score |-> s, confidence |-> <<800>>] :
        k \in {<<>>, <<"Low">>, <<"Medium">>, <<"High">>, <<"Critical">>},
        s \in {<<>>, <<0>>, <<1000>>} }

ComposeFeatures ==
    { [extreme_weather_flag |-> f, best_mandi_name |-> <<"Pune Market Yard">>,
       best_mandi_price |-> <<2500>>, local_mandi_price |-> l,
       estimated_distance_km |-> d, transport_cost_estimate |-> t] :
        f \in {<<>>, <<TRUE>>, <<FALSE>>},
        l \in {<<>>, <<2400>>, <<2600>>},
        d \in {<<>>, <<950>>, <<960>>},
        t \in {<<>>, <<10000>>, <<10001>>} }

InitCompose ==
    /\ cropMeta = SeedCropMeta
    /\ weather = NoTable
    /\ ndvi = NoTable
    /\ soil = NoTable
    /\ routes = {}
    /\ prices = NoTable
    /\ models = NoModels
    /\ req \in { [op |-> "compose", price_trend |-> p, harvest_window |-> h,
                  spoilage_risk |-> s, features |-> f] :
                    p \in ComposePriceTrends, h \in ComposeHarvestWindows,
                    s \in ComposeSpoilageRisks, f \in ComposeFeatures }
    /\ res = <<>>
    /\ log = <<>>
    /\ disk = <<>>
    /\ procs = <<>>
    /\ dbUp = TRUE
    /\ trades = <<>>
    /\ settlements = <<>>

NextCompose == Compose

SpecCompose == InitCompose /\ [][NextCompose]_vars

\* C2: a composed decision whose features carry the extreme-weather flag has
\* action sell_immediately, whatever the price direction, the spoilage
\* category and the harvest recommendation are.
C2_ExtremeWeatherSells ==
    (res # <<>> /\ res[1].op = "compose" /\ req.features.extreme_weather_flag = <<TRUE>>)
        => res[1].action = "sell_immediately"

\* the flag set while the price is rising, spoilage is Low and the harvest model says wait
C2_Witness ==
    /\ res # <<>> /\ res[1].op = "compose"
    /\ req.features.extreme_weather_flag = <<TRUE>>
    /\ req.price_trend.direction = <<"rising">>
    /\ req.spoilage_risk.risk_category = <<"Low">>
    /\ req.harvest_window.recommendation = <<"wait_5_days">>
    /\ res[1].action = "sell_immediately"

\* C22: without the extreme-weather flag the composed action is
\* sell_immediately when the price is falling or spoilage is High or
\* Critical; when the price is rising and spoilage is Low it is the harvest
\* recommendation if that is already a wait_N_days action, so that a longer
\* wait is never replaced by a shorter one, and wait_3_days otherwise; in
\* every other case it is the harvest recommendation (harvest_now when the
\* harvest model gave none).
C22_ComposePolicyWithoutFlag ==
    (/\ res # <<>> /\ res[1].op = "compose"
     /\ req.features.extreme_weather_flag \in {<<>>, <<FALSE>>})
        => LET direction == IF req.price_trend.direction = <<>> THEN "stable"
                            ELSE Lower(req.price_trend.direction[1])
               category == IF req.spoilage_risk.risk_category = <<>> THEN "medium"
                           ELSE Lower(req.spoilage_risk.risk_category[1])
               recommendation == IF req.harvest_window.recommendation = <<>>
                                 THEN "harvest_now"
                                 ELSE req.harvest_window.recommendation[1]
           IN  res[1].action =
                  IF direction = "falling" \/ category \in {"high", "critical"}
                  THEN "sell_immediately"
                  ELSE IF direction = "rising" /\ category = "low"
                  THEN IF recommendation \in {"wait_2_days", "wait_5_days"}
                       THEN recommendation ELSE "wait_3_days"
                  ELSE recommendation

\* rising price, Low spoilage, the harvest model says wait 5 days: the
\* composed action is still wait_5_days
C22_Witness ==
    /\ res # <<>> /\ res[1].op = "compose"
    /\ req.features.extreme_weather_flag = <<FALSE>>
    /\ req.price_trend.direction = <<"Rising">>
    /\ req.spoilage_risk.risk_category = <<"Low">>
    /\ req.harvest_window.recommendation = <<"wait_5_days">>
    /\ res[1].action = "wait_5_days"

ConfidenceInputs == { <<>>, <<0 - 200>>, <<0>>, <<350>>, <<500>>, <<950>>, <<1000>>, <<1200>> }

InitComposeConfidence ==
    /\ cropMeta = SeedCropMeta
    /\ weather = NoTable
    /\ ndvi = NoTable
    /\ soil = NoTable
    /\ routes = {}
    /\ prices = NoTable
    /\ models = NoModels
    /\ req \in { [op |-> "compose",
                  price_trend |-> [direction |-> <<"stable">>, confidence |-> p,
                                   expected_price_range |-> <<>>],
                  harvest_window |-> [recommendation |-> <<"harvest_now">>, confidence |-> h],
                  spoilage_risk |-> [risk_category |-> <<"Medium">>, risk_score |-> <<500>>,
                                     confidence |-> s],
                  features |-> [extreme_weather_flag |-> <<FALSE>>,
                                best_mandi_name |-> <<"Pune Market Yard">>,
                                best_mandi_price |-> <<2500>>,
                                local_mandi_price |-> <<2400>>,
                                estimated_distance_km |-> <<280>>,
                                transport_cost_estimate |-> <<0>>]] :
                    p \in ConfidenceInputs, h \in ConfidenceInputs, s \in ConfidenceInputs }
    /\ res = <<>>
    /\ log = <<>>
    /\ disk = <<>>
    /\ procs = <<>>
    /\ dbUp = TRUE
    /\ trades = <<>>
    /\ settlements = <<>>

SpecComposeConfidence == InitComposeConfidence /\ [][NextCompose]_vars

\* C17: overall_confidence is the arithmetic mean of the price, harvest and
\* spoilage confidences (an absent one counted with its default 0.55, 0.6 or
\* 0.62) clamped into [0.5, 0.95] and rounded to three places, and so lies in
\* [0.5, 0.95] for every input.
C17_OverallConfidenceClampedMean ==
    (res # <<>> /\ res[1].op = "compose")
        => LET p == IF req.price_trend.confidence = <<>> THEN 550
                    ELSE req.price_trend.confidence[1]
               h == IF req.harvest_window.confidence = <<>> THEN 600
                    ELSE req.harvest_window.confidence[1]
               s == IF req.spoilage_risk.confidence = <<>> THEN 620
                    ELSE req.spoilage_risk.confidence[1]
           IN  /\ res[1].overall_confidence >= 500
               /\ res[1].overall_confidence <= 950
               /\ res[1].overall_confidence =
                     IF p + h + s < 1500 THEN 500
                     ELSE IF p + h + s > 2850 THEN 950
                     ELSE RoundDiv(p + h + s, 3)

\* three confidences above 1: the mean 1.2 is reported as 0.95
C17_Witness ==
    /\ res # <<>> /\ res[1].op = "compose"
    /\ req.price_trend.confidence = <<1200>>
    /\ req.harvest_window.confidence = <<1200>>
    /\ req.spoilage_risk.confidence = <<1200>>
    /\ res[1].overall_confidence = 950

-----------------------------------------------------------------------------
(* Specification of the spoilage-risk engine *)

\* CropMeta rows beyond the seed: a very perishable crop and a malformed row
RowBerry ==
    [maturity_days_min |-> 60, maturity_days_max |-> 90, shelf_life_days |-> 2,
     optimal_temp_min |-> 0, optimal_temp_max |-> 20,
     optimal_humidity_min |-> 900, optimal_humidity_max |-> 950,
     fao_loss_pct |-> 600, base_price |-> 9000, category |-> "fruit"]

RowMalformed ==
    [maturity_days_min |-> 60, maturity_days_max |-> 90, shelf_life_days |-> 0,
     optimal_temp_min |-> 100, optimal_temp_max |-> 250,
     optimal_humidity_min |-> 600, optimal_humidity_max |-> 800,
     fao_loss_pct |-> 0 - 50, base_price |-> Null, category |-> ""]

SpoilageCropMeta ==
    [c \in {"onion", "tomato", "grape", "berry", "malformed"} |->
        CASE c = "berry" -> RowBerry
          [] c = "malformed" -> RowMalformed
          [] OTHER -> SeedCropMeta[c]]

WeatherCool == [temp_avg |-> 30, humidity |-> 670, rainfall_mm |-> 0, wind_speed |-> 20]

WeatherMild == [temp_avg |-> 114, humidity |-> 670, rainfall_mm |-> 0, wind_speed |-> 20]

WeatherHot == [temp_avg |-> 350, humidity |-> 400, rainfall_mm |-> 0, wind_speed |-> 40]

WeatherBlank ==
    [temp_avg |-> Null, humidity |-> Null, rainfall_mm |-> Null, wind_speed |-> Null]

\* the district's weather rows, newest first; the last one is longer than the
\* three rows the queries keep
SpoilageWeatherTables ==
    { OnlyFor("nashik", w) :
        w \in { <<>>, <<WeatherCool>>, <<WeatherMild>>, <<WeatherHot>>, <<WeatherBlank>>,
                <<WeatherCool, WeatherHot>>,
                <<WeatherHot, WeatherBlank, WeatherMild, WeatherCool>> } }

SpoilageNdviTables ==
    { OnlyFor("nashik", n) :
        n \in { <<>>,
                <<[ndvi_value |-> 700, trend_30d |-> 0, growth_plateau |-> TRUE]>>,
                <<[ndvi_value |-> 200, trend_30d |-> 0 - 200, growth_plateau |-> FALSE]>> } }

\* routes as the lookups read them: hours in tenths, rate in hundredths of a
\* percent per hour, fuel cost in tenths of a rupee per km
RouteNashikPune ==
    [origin |-> "nashik", destination |-> "pune", distance_km |-> 212,
     typical_hours |-> 50, spoilage_rate_pct_per_hr |-> 30, fuel_cost_per_km |-> 65]

RouteMumbaiNashik ==
    [origin |-> "mumbai", destination |-> "nashik", distance_km |-> 168,
     typical_hours |-> 45, spoilage_rate_pct_per_hr |-> Null, fuel_cost_per_km |-> Null]

RouteTables == { {}, {RouteNashikPune, RouteMumbaiNashik} }

StoragePackaging ==
    { <<st, "jute_bag">> :
        st \in {"open_air", "covered", "cold_storage", "controlled_atm",
                "controlled_atmosphere"} }
    \cup
    { <<"open_air", pk>> :
        pk \in {"none", "plastic_crate", "corrugated_box", "vacuum_pack",
                "jute", "corrugated", "vacuum"} }

SpoilageRequests ==
    { [op |-> "spoilage", commodity |-> c, district |-> "Nashik",
       destination_market |-> d, storage_type |-> sp[1], packaging |-> sp[2],
       harvest_days_ago |-> a, quantity_kg |-> 1000] :
         c \in {"Onion", "ragi", "berry", "malformed"},
         d \in {"", "Pune", "mumbai"},
         sp \in StoragePackaging,
         a \in 0..MaxDays }

InitSpoilage ==
    /\ cropMeta = SpoilageCropMeta
    /\ weather \in SpoilageWeatherTables
    /\ ndvi \in SpoilageNdviTables
    /\ soil = NoTable
    /\ routes \in RouteTables
    /\ prices = NoTable
    /\ models = NoModels
    /\ req \in SpoilageRequests
    /\ res = <<>>
    /\ log = <<>>
    /\ disk = <<>>
    /\ procs = <<>>
    /\ dbUp = TRUE
    /\ trades = <<>>
    /\ settlements = <<>>

NextSpoilage == SpoilagePredict

SpecSpoilage == InitSpoilage /\ [][NextSpoilage]_vars

\* C3: every spoilage assessment reports 0 <= spoilage_pct <= 100 (hundredths
\* of a percent: 0..10000), for known and unknown crops, any storage and
\* packaging name, any harvest age and any weather, NDVI and route data.
C3_SpoilageInRange ==
    (res # <<>> /\ res[1].op = "spoilage")
        => (0 <= res[1].spoilage_pct /\ res[1].spoilage_pct <= 10000)

\* an assessment that the clamp cut down to 100, and one it raised to 0
C3_Witness ==
    /\ res # <<>> /\ res[1].op = "spoilage"
    /\ req.commodity = "berry" /\ req.storage_type = "open_air" /\ req.packaging = "none"
    /\ res[1].spoilage_pct = 10000

\* C4: in every assessment the reported risk tier is the tier the thresholds
\* (< 8 Low, < 20 Medium, < 40 High, else Critical) assign to the reported
\* spoilage_pct, boundaries included (a reported 8.0 is Medium).
C4_TierMatchesReported ==
    (res # <<>> /\ res[1].op = "spoilage")
        => LET reported_pct == res[1].spoilage_pct
           IN  res[1].risk_level =
                  IF reported_pct < 800 THEN "Low"
                  ELSE IF reported_pct < 2000 THEN "Medium"
                  ELSE IF reported_pct < 4000 THEN "High"
                  ELSE "Critical"

\* seeded onion at 11.4 C and 67 % humidity, open air, corrugated box, fresh,
\* healthy crop, no destination: 19.99775 % is classified, 20.0 is reported
C4_Witness ==
    /\ res # <<>> /\ res[1].op = "spoilage"
    /\ req.commodity = "Onion" /\ req.destination_market = ""
    /\ req.storage_type = "open_air" /\ req.packaging = "corrugated_box"
    /\ req.harvest_days_ago = 0
    /\ res[1].spoilage_pct = 2000
    /\ res[1].risk_level = "Medium"

\* C5: spoilage_pct never decreases with harvest age: the assessment made at
\* harvest_days_ago = d2 reports at least what the same call (same crop,
\* district, destination, storage, packaging and data) reports at any d1 <= d2.
C5_MonotoneInHarvestAge ==
    (res # <<>> /\ res[1].op = "spoilage")
        => \A d1 \in 0..req.harvest_days_ago :
              SpoilageResult(req.commodity, req.district, req.destination_market,
                             req.storage_type, req.packaging, d1,
                             req.quantity_kg).spoilage_pct
                 <= res[1].spoilage_pct

\* an assessment past the shelf life that reports strictly more than at day 0
C5_Witness ==
    /\ res # <<>> /\ res[1].op = "spoilage"
    /\ req.commodity = "Onion" /\ req.harvest_days_ago > 21
    /\ res[1].spoilage_pct < 10000
    /\ SpoilageResult(req.commodity, req.district, req.destination_market,
                      req.storage_type, req.packaging, 0,
                      req.quantity_kg).spoilage_pct
          < res[1].spoilage_pct

\* C6: seeded onion in open air, unpacked, 25 days after harvest is Critical
\* for every state of the weather, NDVI and route data and every destination.
C6_OnionScenarioCritical ==
    (/\ res # <<>> /\ res[1].op = "spoilage"
     /\ Lower(req.commodity) = "onion" /\ cropMeta["onion"] = SeedOnion
     /\ req.storage_type = "open_air" /\ req.packaging = "none"
     /\ req.harvest_days_ago = 25)
        => res[1].risk_level = "Critical"

\* the scenario with cool weather inside the onion's optimal range, a healthy
\* crop and no destination: 35.45 % and High
C6_Witness ==
    /\ res # <<>> /\ res[1].op = "spoilage"
    /\ Lower(req.commodity) = "onion" /\ cropMeta["onion"] = SeedOnion
    /\ req.storage_type = "open_air" /\ req.packaging = "none"
    /\ req.harvest_days_ago = 25
    /\ req.destination_market = ""
    /\ res[1].spoilage_pct = 3545
    /\ res[1].risk_level = "High"

\* Has(seq, x): x is an element of the sequence
Has(seq, x) == \E i \in 1..Len(seq) : seq[i] = x

\* how often x occurs in the sequence
Occurrences(seq, x) == Cardinality({ i \in 1..Len(seq) : seq[i] = x })

\* C24: for every storage type and packaging the contract names, the engine
\* applies the documented multiplier: open_air 1.5, covered 1.2, cold_storage
\* 0.4, controlled_atmosphere 0.2; none 1.3, jute 1.0, plastic_crate 0.8,
\* corrugated 0.7, vacuum 0.4 (tenths).
C24_ContractMultipliers ==
    (res # <<>> /\ res[1].op = "spoilage")
        => /\ (req.storage_type = "open_air" => res[1].factors.storage_multiplier = 15)
           /\ (req.storage_type = "covered" => res[1].factors.storage_multiplier = 12)
           /\ (req.storage_type = "cold_storage" => res[1].factors.storage_multiplier = 4)
           /\ (req.storage_type = "controlled_atmosphere"
                  => res[1].factors.storage_multiplier = 2)
           /\ (req.packaging = "none" => res[1].factors.packaging_multiplier = 13)
           /\ (req.packaging = "jute" => res[1].factors.packaging_multiplier = 10)
           /\ (req.packaging = "plastic_crate" => res[1].factors.packaging_multiplier = 8)
           /\ (req.packaging = "corrugated" => res[1].factors.packaging_multiplier = 7)
           /\ (req.packaging = "vacuum" => res[1].factors.packaging_multiplier = 4)

\* a request for controlled_atmosphere storage answered with the multiplier 1.0
C24_Witness ==
    /\ res # <<>> /\ res[1].op = "spoilage"
    /\ req.storage_type = "controlled_atmosphere"
    /\ res[1].factors.storage_multiplier = 10

\* C25: the recommendation list holds at most one tip per factor; the tip for
\* temperature, humidity and transit is present exactly when that factor is
\* above 0.3, and the critical-window tip exactly when the spoilage percentage
\* is above 40 %. (The list is a function of the inputs, so equal inputs give
\* equal lists in equal order.)
C25_TipsMatchFactors ==
    (res # <<>> /\ res[1].op = "spoilage")
        => LET tips == res[1].recommendations
           IN  /\ \A t \in {"temperature", "humidity", "transit", "critical"} :
                     Occurrences(tips, t) <= 1
               /\ Has(tips, "temperature") <=> res[1].factors.temperature > 300
               /\ Has(tips, "humidity") <=> res[1].factors.humidity > 300
               /\ Has(tips, "transit") <=> res[1].factors.transit > 300
               /\ Has(tips, "critical") <=> res[1].spoilage_pct > 4000

\* a loss between 30 % and 40 % that carries the critical-window tip
C25_Witness ==
    /\ res # <<>> /\ res[1].op = "spoilage"
    /\ res[1].spoilage_pct > 3000 /\ res[1].spoilage_pct <= 4000
    /\ Has(res[1].recommendations, "critical")

-----------------------------------------------------------------------------
(* The spoilage-risk engine against the classes that db/models.py maps *)

\* the attributes of the mapped classes CropMeta and TransportRoute
CropMetaColumns ==
    { "id", "crop", "maturity_days_min", "maturity_days_max",
      "shelf_life_days_open", "shelf_life_days_cold",
      "optimal_temp_min", "optimal_temp_max",
      "optimal_humidity_min", "optimal_humidity_max",
      "fao_post_harvest_loss_pct", "base_price_per_quintal", "category" }

TransportRouteColumns ==
    { "id", "origin_district", "destination_market", "distance_km",
      "estimated_time_hours", "road_quality", "fuel_cost_per_km",
      "spoilage_rate_per_hour" }

\* the attributes SpoilageModel._load_crop_meta reads from every CropMeta row
SpoilageCropAttributes ==
    { "crop", "shelf_life_days", "fao_loss_pct", "optimal_temp_min", "optimal_temp_max",
      "optimal_humidity_min", "optimal_humidity_max", "category" }

\* the attributes of TransportRoute that _compute_transit_factor filters by
SpoilageRouteAttributes == { "origin", "destination" }

\* SpoilageModel(db).predict(...) as the endpoint runs it: the constructor
\* reads SpoilageCropAttributes from every row of the crop table, and the
\* route lookup, made when a destination is given, builds its filter from
\* SpoilageRouteAttributes; an attribute the class does not map raises
\* AttributeError, which nothing in the engine handles
SpoilageServed(r) ==
    IF DOMAIN cropMeta # {} /\ ~(SpoilageCropAttributes \subseteq CropMetaColumns)
    THEN [op |-> "spoilage", error |-> "AttributeError"]
    ELSE IF r.destination_market # "" /\ ~(SpoilageRouteAttributes \subseteq TransportRouteColumns)
    THEN [op |-> "spoilage", error |-> "AttributeError"]
    ELSE SpoilageResult(r.commodity, r.district, r.destination_market, r.storage_type,
                        r.packaging, r.harvest_days_ago, r.quantity_kg)

\* POST /spoilage-risk: SpoilageModel(db) and its predict
SpoilageServe ==
    /\ req.op = "spoilage"
    /\ dbUp
    /\ res = <<>>
    /\ res' = <<SpoilageServed(req)>>
    /\ UNCHANGED <<cropMeta, weather, ndvi, soil, routes, prices, models, req, log, disk, procs, dbUp, trades, settlements>>

InitSpoilageOrm ==
    /\ cropMeta \in { <<>>, SpoilageCropMeta }
    /\ weather \in { NoTable, OnlyFor("nashik", <<WeatherHot>>) }
    /\ ndvi \in { NoTable,
                  OnlyFor("nashik", <<[ndvi_value |-> 200, trend_30d |-> 0 - 200,
                                       growth_plateau |-> FALSE]>>) }
    /\ soil = NoTable
    /\ routes \in RouteTables
    /\ prices = NoTable
    /\ models = NoModels
    /\ req \in SpoilageRequests
    /\ res = <<>>
    /\ log = <<>>
    /\ disk = <<>>
    /\ procs = <<>>
    /\ dbUp = TRUE
    /\ trades = <<>>
    /\ settlements = <<>>

NextSpoilageOrm == SpoilageServe

SpecSpoilageOrm == InitSpoilageOrm /\ [][NextSpoilageOrm]_vars

\* C15: the spoilage assessment never fails, whatever the commodity and the
\* content of the crop, weather, NDVI and route tables; a crop that has no
\* row in the crop table is assessed with the default metadata (shelf life 7
\* days, FAO loss 15 %), a crop that has one with its stored shelf life and
\* FAO loss rate.
C15_SpoilageNeverFails ==
    (res # <<>> /\ res[1].op = "spoilage")
        => /\ "error" \notin DOMAIN res[1]
           /\ LET crop_key == Lower(req.commodity)
                  meta == IF crop_key \in DOMAIN cropMeta THEN cropMeta[crop_key]
                          ELSE SpoilageDefaultMeta
              IN  /\ res[1].fao_baseline_pct = meta.fao_loss_pct
                  /\ res[1].shelf_life_remaining_days
                        = Max(0, meta.shelf_life_days - req.harvest_days_ago)

\* the crop table holds a row for onion and the assessment of onion ends in
\* AttributeError
C15_Witness ==
    /\ res # <<>> /\ res[1].op = "spoilage"
    /\ Lower(req.commodity) \in DOMAIN cropMeta
    /\ req.destination_market = ""
    /\ "error" \in DOMAIN res[1]
    /\ res[1].error = "AttributeError"

-----------------------------------------------------------------------------
(* Specification of the price forecaster *)

\* a model that follows the last price, one that answers below zero, one that
\* answers a fixed price
PriceModels ==
    { [base |-> 0, slope_pct |-> 105], [base |-> 0 - 1000, slope_pct |-> 0],
      [base |-> 4000, slope_pct |-> 0] }

PriceModelStores ==
    { [c \in {"onion", "tomato", "grape", "ragi"} |-> IF c = "onion" THEN m ELSE <<>>] :
        m \in {<<>>} \cup { <<x>> : x \in PriceModels } }

\* n daily prices that end with a day on which the modal price is 0
EndingAtZero(n, base) == [i \in 1..n |-> IF i = n THEN 0 ELSE base]

PriceHistories ==
    { [nashik |-> a, pune |-> b, mumbai |-> c] :
        a \in { <<>>, PriceSeries(5, 2000, 10), PriceSeries(13, 2000, 0),
                PriceSeries(14, 2000, 0), PriceSeries(20, 2000, 30),
                EndingAtZero(15, 2000), PriceSeries(61, 2600, 0 - 10) },
        b \in { <<>>, PriceSeries(20, 2500, 0) },
        c \in { <<>>, PriceSeries(5, 1800, 0) } }

PriceRequests ==
    { [op |-> "price", commodity |-> c, district |-> d, forecast_days |-> n] :
        c \in {"Onion", "ragi"}, d \in {"Nashik", "pune", "latur"},
        n \in 0..MaxForecastDays }

InitPrice ==
    /\ cropMeta = SeedCropMeta
    /\ weather = NoTable
    /\ ndvi = NoTable
    /\ soil = NoTable
    /\ routes = {}
    /\ prices \in PriceHistories
    /\ models \in PriceModelStores
    /\ req \in PriceRequests
    /\ res = <<>>
    /\ log = <<>>
    /\ disk = <<>>
    /\ procs = <<>>
    /\ dbUp = TRUE
    /\ trades = <<>>
    /\ settlements = <<>>

NextPrice == PricePredict

SpecPrice == InitPrice /\ [][NextPrice]_vars

\* C9: a forecast made from fewer than 14 price records of the commodity and
\* district in the window has source statistical_fallback and confidence 0.35,
\* and is a forecast the predictor gives with any other model store: the
\* stored model is not used.
C9_ShortHistoryFallback ==
    (/\ res # <<>> /\ res[1].op = "price"
     /\ Len(Window60(RowsOf(prices, req.district))) < 14)
        => /\ res[1].error = ""
           /\ res[1].source = "statistical_fallback"
           /\ res[1].model_version = "statistical_fallback"
           /\ res[1].confidence = 35
           /\ \A store \in PriceModelStores :
                 \E tie \in TieOrders :
                     PredictWith(store, req.commodity, req.district,
                                 req.forecast_days, tie) = res[1]

\* 13 records in the district, a model stored for the commodity
C9_Witness ==
    /\ res # <<>> /\ res[1].op = "price"
    /\ Len(Window60(RowsOf(prices, req.district))) = 13
    /\ models[Lower(req.commodity)] # <<>>
    /\ req.forecast_days > 0
    /\ res[1].confidence = 35
    /\ res[1].source = "statistical_fallback"

\* C10: with no model stored for the commodity a forecast takes the
\* statistical fallback whatever the length of the local history: source
\* statistical_fallback, confidence 0.35, the day-indexed forecast around the
\* mean price.
C10_NoModelFallback ==
    (/\ res # <<>> /\ res[1].op = "price"
     /\ models[Lower(req.commodity)] = <<>>)
        => /\ res[1].error = ""
           /\ res[1].source = "statistical_fallback"
           /\ res[1].confidence = 35
           /\ \E tie \in TieOrders :
                 res[1] = StatisticalForecast(req.commodity, req.forecast_days, tie)

\* no model and 14 flat records: the moving-average forecast, source
\* statistical, confidence 0.55
C10_Witness ==
    /\ res # <<>> /\ res[1].op = "price"
    /\ models[Lower(req.commodity)] = <<>>
    /\ Len(Window60(RowsOf(prices, req.district))) = 14
    /\ res[1].error = ""
    /\ res[1].source = "statistical"
    /\ res[1].model_version = "statistical_fallback"
    /\ res[1].confidence = 55

C14_PredictNeverFails ==
    (res # <<>> /\ res[1].op = "price")
        => /\ res[1].error = ""
           /\ Len(res[1].forecasts) = req.forecast_days

\* 15 local records, the newest with modal price 0, one forecast day or more:
\* the percentage change divides by the newest price
C14_Witness ==
    /\ res # <<>> /\ res[1].op = "price"
    /\ res[1].error = "ZeroDivisionError"
    /\ Len(Window60(RowsOf(prices, req.district))) = 15
    /\ RowsOf(prices, req.district)[15] = 0
    /\ req.forecast_days >= 1

-----------------------------------------------------------------------------
(* Specification of the mandi recommendation engine *)

MandiPriceTables ==
    { NoTable,
      [nashik |-> PriceSeries(20, 2000, 30), pune |-> PriceSeries(20, 2500, 0),
       mumbai |-> <<>>],
      [nashik |-> PriceSeries(5, 2000, 0), pune |-> PriceSeries(14, 2600, 0),
       mumbai |-> PriceSeries(14, 2600, 0)],
      [nashik |-> PriceSeries(14, 2000, 0), pune |-> EndingAtZero(15, 2500),
       mumbai |-> <<>>] }

MandiRequests ==
    { [op |-> "mandi", commodity |-> c, origin_district |-> o, quantity_quintals |-> q,
       storage_type |-> "covered", packaging |-> "jute_bag", target_mandis |-> t,
       forecast_days |-> n] :
         c \in {"Onion", "ragi"}, o \in {"Nashik", "pune", "latur"}, q \in {10, 40},
         t \in { <<>>, <<"Pune", "Mumbai">>, <<"mumbai", "pune", "mumbai", "nashik">>,
                 <<"solapur">> },
         n \in {0, MaxForecastDays} }

InitMandi ==
    /\ cropMeta = SeedCropMeta
    /\ weather \in { NoTable, OnlyFor("nashik", <<WeatherHot>>) }
    /\ ndvi = NoTable
    /\ soil = NoTable
    /\ routes \in RouteTables
    /\ prices \in MandiPriceTables
    /\ models \in { NoModels } \cup
                  { [NoModels EXCEPT !["onion"] = <<m>>] : m \in PriceModels }
    /\ req \in MandiRequests
    /\ res = <<>>
    /\ log = <<>>
    /\ disk = <<>>
    /\ procs = <<>>
    /\ dbUp = TRUE
    /\ trades = <<>>
    /\ settlements = <<>>

NextMandi == Recommend

SpecMandi == InitMandi /\ [][NextMandi]_vars

\* C7: the returned list is ordered by net profit non-increasing, entry i has
\* rank i, and the list is the evaluated candidates rearranged so that
\* candidates with equal net profit keep their candidate order.
C7_SortedStableRanked ==
    (res # <<>> /\ res[1].op = "mandi" /\ res[1].error = "")
        => LET recs == res[1].recommendations
               n == Len(recs)
               origin == Lower(req.origin_district)
               cand == Candidates(origin, req.target_mandis)
           IN  /\ n = Len(cand)
               /\ \A i \in 1..n : recs[i].rank = i
               /\ \A i, j \in 1..n :
                     i < j => recs[i].net_profit_inr >= recs[j].net_profit_inr
               /\ \E tie \in TieOrders :
                  \E pi \in [1..n -> 1..n] :
                     /\ \A k, l \in 1..n : k # l => pi[k] # pi[l]
                     /\ \A k \in 1..n :
                           [recs[k] EXCEPT !.rank = 0] =
                               EvaluateMandi(Lower(req.commodity), origin, cand[pi[k]],
                                             req.quantity_quintals, req.storage_type,
                                             req.packaging, req.forecast_days, tie)
                     /\ \A k, l \in 1..n :
                           (k < l /\ recs[k].net_profit_inr = recs[l].net_profit_inr
                                  /\ recs[k].mandi # recs[l].mandi)
                               => pi[k] < pi[l]

\* a ranking in which two different mandis tie and one with a lower net profit
\* was a candidate before them
C7_Witness ==
    /\ res # <<>> /\ res[1].op = "mandi" /\ res[1].error = ""
    /\ LET recs == res[1].recommendations
           cand == Candidates(Lower(req.origin_district), req.target_mandis)
       IN  /\ Len(recs) >= 3
           /\ recs[1].net_profit_inr = recs[2].net_profit_inr
           /\ recs[1].mandi # recs[2].mandi
           /\ recs[3].net_profit_inr < recs[2].net_profit_inr
           /\ cand[1] = recs[3].mandi

\* C8: every ranking is non-empty and contains the origin district as a
\* candidate: with no target list, with an origin unknown to the default
\* table, and with an explicit target list that omits the origin.
C8_OriginAlwaysCandidate ==
    (res # <<>> /\ res[1].op = "mandi" /\ res[1].error = "")
        => /\ res[1].recommendations # <<>>
           /\ \E i \in 1..Len(res[1].recommendations) :
                 res[1].recommendations[i].mandi = Lower(req.origin_district)

\* an explicit target list without the origin: the origin is not ranked
C8_Witness ==
    /\ res # <<>> /\ res[1].op = "mandi" /\ res[1].error = ""
    /\ req.origin_district = "Nashik"
    /\ req.target_mandis = <<"Pune", "Mumbai">>
    /\ res[1].recommendations # <<>>
    /\ \A i \in 1..Len(res[1].recommendations) :
          res[1].recommendations[i].mandi # "nashik"

-----------------------------------------------------------------------------
(* Specification of the operations under a failing database session *)

\* a query of the operation in progress raises (connection lost, statement
\* timed out).  The engines run their queries outside any try block, in the
\* constructors (_load_crop_meta) and in predict, recommend and train, so the
\* exception ends the operation at the first query; nothing is retried and
\* no fallback result is built.
QueryFailure ==
    /\ req.op \in {"price", "spoilage", "harvest", "mandi", "train"}
    /\ ~dbUp
    /\ res = <<>>
    /\ res' = <<[op |-> req.op, error |-> "OperationalError"]>>
    /\ UNCHANGED <<cropMeta, weather, ndvi, soil, routes, prices, models, req, log, disk, procs, dbUp, trades, settlements>>

OutageRequests ==
    PriceRequests
    \cup { r \in HarvestRequests : r.sowing_date = <<>> }
    \cup { r \in SpoilageRequests : r.harvest_days_ago = 3 }
    \cup { r \in MandiRequests : r.quantity_quintals = 10 }
    \cup { [op |-> "train", commodity |-> "Onion", district |-> d] : d \in {"", "Nashik"} }

InitOutage ==
    /\ cropMeta = SeedCropMeta
    /\ weather = OnlyFor("nashik", <<WeatherHot>>)
    /\ ndvi = NoTable
    /\ soil = NoTable
    /\ routes = {RouteNashikPune, RouteMumbaiNashik}
    /\ prices \in MandiPriceTables
    /\ models = NoModels
    /\ req \in OutageRequests
    /\ res = <<>>
    /\ log = <<>>
    /\ disk = <<>>
    /\ procs = <<>>
    /\ dbUp \in BOOLEAN
    /\ trades = <<>>
    /\ settlements = <<>>

NextOutage ==
    \/ PricePredict
    \/ SpoilagePredict
    \/ HarvestPredict
    \/ Recommend
    \/ Train
    \/ QueryFailure

SpecOutage == InitOutage /\ [][NextOutage]_vars

\* C16: a price forecast, spoilage assessment, harvest-window optimization
\* or mandi ranking during which a database query fails still returns a
\* result, its statistical or default fallback, and the failure does not
\* leave the operation; a training run is the only operation that may fail.
C16_QueryFailureDegrades ==
    (/\ ~dbUp
     /\ res # <<>>
     /\ req.op \in {"price", "spoilage", "harvest", "mandi"})
        => /\ "error" \notin DOMAIN res[1] \/ res[1].error = ""
           /\ req.op = "price" => res[1].source = "statistical_fallback"

\* the database is down and the price forecast ends in the query's exception
C16_Witness ==
    /\ ~dbUp
    /\ res # <<>>
    /\ req.op = "price"
    /\ "error" \in DOMAIN res[1]
    /\ res[1].error = "OperationalError"

-----------------------------------------------------------------------------
(* Specification of a session: a sequence of calls of the core operations   *)
(* against tables that are not modified.  Every request builds its engine   *)
(* anew (routers/intelligence.py), and PricePredictor loads the model files *)
(* in its constructor, so that models is the store every call starts from.  *)

MaxCalls == 3

SessionHistories ==
    { [nashik |-> PriceSeries(80, 2000, 10), pune |-> <<>>, mumbai |-> <<>>],
      [nashik |-> PriceSeries(79, 2000, 10), pune |-> <<>>, mumbai |-> <<>>],
      [nashik |-> PriceSeries(61, 2600, 0 - 10), pune |-> PriceSeries(20, 2500, 0),
       mumbai |-> <<>>] }

SessionRequests ==
    { [op |-> "price", commodity |-> "Onion", district |-> "Nashik", forecast_days |-> 2],
      [op |-> "train", commodity |-> "Onion", district |-> ""],
      [op |-> "train", commodity |-> "Onion", district |-> "Nashik"],
      [op |-> "train", commodity |-> "tomato", district |-> ""],
      [op |-> "spoilage", commodity |-> "Onion", district |-> "Nashik",
       destination_market |-> "", storage_type |-> "open_air", packaging |-> "jute_bag",
       harvest_days_ago |-> 3, quantity_kg |-> 1000],
      [op |-> "harvest", commodity |-> "Onion", district |-> "Nashik",
       sowing_date |-> <<>>, crop_age_days |-> 120],
      [op |-> "mandi", commodity |-> "Onion", origin_district |-> "Nashik",
       quantity_quintals |-> 10, storage_type |-> "covered", packaging |-> "jute_bag",
       target_mandis |-> <<"pune">>, forecast_days |-> 1],
      [op |-> "compose",
       price_trend |-> [direction |-> <<"rising">>, confidence |-> <<350>>,
                        expected_price_range |-> <<>>],
       harvest_window |-> [recommendation |-> <<"harvest_now">>, confidence |-> <<940>>],
       spoilage_risk |-> [risk_category |-> <<"Low">>, risk_score |-> <<0>>,
                          confidence |-> <<800>>],
       features |-> [extreme_weather_flag |-> <<FALSE>>,
                     best_mandi_name |-> <<"Pune Market Yard">>,
                     best_mandi_price |-> <<2500>>, local_mandi_price |-> <<2400>>,
                     estimated_distance_km |-> <<950>>,
                     transport_cost_estimate |-> <<10000>>]] }

InitSession ==
    /\ cropMeta = SeedCropMeta
    /\ weather = OnlyFor("nashik", <<WeatherMild>>)
    /\ ndvi = NoTable
    /\ soil = NoTable
    /\ routes = {RouteNashikPune}
    /\ prices \in SessionHistories
    /\ models \in { NoModels, [NoModels EXCEPT !["onion"] = <<[base |-> 4000, slope_pct |-> 0]>>] }
    /\ req \in SessionRequests
    /\ res = <<>>
    /\ log = <<>>
    /\ disk = <<>>
    /\ procs = <<>>
    /\ dbUp = TRUE
    /\ trades = <<>>
    /\ settlements = <<>>

\* the call has returned and the client sends its next request
NextCall ==
    /\ res # <<>>
    /\ Len(log) + 1 < MaxCalls
    /\ log' = Append(log, [req |-> req, res |-> res[1]])
    /\ req' \in SessionRequests
    /\ res' = <<>>
    /\ UNCHANGED <<cropMeta, weather, ndvi, soil, routes, prices, models, disk, procs, dbUp, trades, settlements>>

NextSession ==
    \/ PricePredict
    \/ Train
    \/ SpoilagePredict
    \/ HarvestPredict
    \/ Recommend
    \/ Compose
    \/ NextCall

SpecSession == InitSession /\ [][NextSession]_vars

\* C12: in a session against unmodified price and weather tables, two
\* forecasts asked with the same commodity, district and horizon return the
\* same output.
C12_ForecastRepeatable ==
    \A i \in 1..Len(log) :
        (/\ log[i].req.op = "price"
         /\ res # <<>>
         /\ req = log[i].req)
            => res[1] = log[i].res

\* the same forecast asked before and after a training run: first from the
\* moving average, then from the model the run stored
C12_Witness ==
    /\ Len(log) = 2
    /\ log[1].req.op = "price"
    /\ log[1].res.source = "statistical"
    /\ log[2].req.op = "train"
    /\ log[2].res.status = "trained"
    /\ res # <<>>
    /\ req = log[1].req
    /\ res[1].source = "ml_model"
    /\ res[1].forecasts # log[1].res.forecasts

\* C13: a train call that gets fewer than 50 feature rows returns the
\* insufficient_data result, which carries the sample count and neither mae
\* nor mape, and leaves the model store as it was; with 50 feature rows or
\* more it returns status trained with samples, mae and mape and the store
\* holds the fitted model under the lower-cased commodity.
C13_TrainNeedsFiftyRows ==
    [][(req.op = "train" /\ res = <<>> /\ res' # <<>>) =>
          \E tie \in TieOrders :
             LET y == ExtractTargets(TrainRows(req.district, tie))
             IN  /\ res'[1].samples = Len(y)
                 /\ Len(y) < 50 =>
                       /\ res'[1].status = "insufficient_data"
                       /\ "mae" \notin DOMAIN res'[1]
                       /\ "mape" \notin DOMAIN res'[1]
                       /\ models' = models
                 /\ Len(y) >= 50 =>
                       /\ res'[1].status = "trained"
                       /\ {"samples", "mae", "mape"} \subseteq DOMAIN res'[1]
                       /\ models'[Lower(req.commodity)] = <<Fit(y)>>]_vars

\* a training run on 81 rows stored a model; the next run, on the 61 rows of
\* one district, reports insufficient data and the stored model is kept
C13_Witness ==
    /\ Len(log) >= 1
    /\ log[Len(log)].req.op = "train"
    /\ log[Len(log)].res.status = "trained"
    /\ log[Len(log)].res.samples = 51
    /\ req.op = "train"
    /\ req.commodity = log[Len(log)].req.commodity
    /\ res # <<>>
    /\ res[1].status = "insufficient_data"
    /\ res[1].samples = 31
    /\ models[Lower(req.commodity)] # <<>>

\* C19: a forecast, a spoilage assessment, a harvest-window optimization, a
\* mandi ranking and a composed decision leave the trained-model store as it
\* was; only a training run changes the store, and it changes no entry but
\* that of its own commodity.
C19_OnlyTrainWritesStore ==
    [][/\ req.op # "train" => models' = models
       /\ req.op = "train" =>
             \A c \in DOMAIN models :
                c # Lower(req.commodity) => c \in DOMAIN models' /\ models'[c] = models[c]]_vars

\* a training run for tomato has stored a model and the onion model of an
\* earlier run is still in the store
C19_Witness ==
    /\ res # <<>> /\ res[1].op = "train"
    /\ res[1].status = "trained"
    /\ req.commodity = "tomato"
    /\ models["tomato"] # <<>>
    /\ models["onion"] = <<[base |-> 4000, slope_pct |-> 0]>>

-----------------------------------------------------------------------------
(* Specification of concurrent training and forecasting.  The endpoints are *)
(* plain functions, which the server runs on worker threads; every request  *)
(* has its own PricePredictor and the requests meet in the model file.      *)

\* pickle.dump hands the pickle to the file in pieces; Chunks pieces a model
Chunks == 2

\* chunk number part of the pickle of a model; the pickles of two different
\* models differ in every chunk
Pickle(model) == [k \in 1..Chunks |-> [of |-> model, part |-> k]]

\* bytes never written that lie before a later write
Hole == [of |-> <<>>, part |-> 0]

\* a write of one chunk at position pos of the file
WriteAt(file, pos, chunk) ==
    [k \in 1..Max(Len(file), pos) |->
        IF k = pos THEN chunk ELSE IF k <= Len(file) THEN file[k] ELSE Hole]

\* the file holds the complete pickle of one model
IsPickle(file) == Len(file) = Chunks /\ file = Pickle(file[1].of)

\* the file has the length and the chunk order of a pickle, the chunks coming
\* from more than one model
IsMixture(file) ==
    /\ Len(file) = Chunks
    /\ \A k \in 1..Chunks : file[k].part = k
    /\ ~IsPickle(file)

\* what pickle.load may make of a mixture when it does not raise
Hybrid(file) ==
    [base |-> file[1].of.base, slope_pct |-> file[Chunks].of.slope_pct,
     chunks_of |-> [k \in 1..Chunks |-> file[k].of]]

\* the values self.models["onion"] may have after _load_models has read the
\* file: the model of a complete pickle; nothing when the file is empty,
\* truncated or has a hole (pickle.load raises, the exception is logged);
\* nothing or a hybrid when the file is a mixture
Loadable(file) ==
    IF IsPickle(file) THEN { <<file[1].of>> }
    ELSE IF IsMixture(file) THEN { <<>>, <<Hybrid(file)>> }
    ELSE { <<>> }

Trainers == {"t1", "t2"}
Predictors == {"p1"}

\* train up to the fitted model: queries, features, fit; with too few
\* samples the call returns here
TrainFit(p) ==
    /\ procs[p].kind = "train"
    /\ procs[p].pc = "start"
    /\ dbUp
    /\ \E tie \in TieOrders :
          LET y == ExtractTargets(TrainRows(procs[p].district, tie))
          IN  procs' = [procs EXCEPT
                  ![p].pc = IF EnoughSamples(Len(y)) THEN "open" ELSE "done",
                  ![p].model = IF EnoughSamples(Len(y)) THEN <<Fit(y)>> ELSE <<>>,
                  ![p].out = <<TrainResult("Onion", y)>>]
    /\ UNCHANGED <<cropMeta, weather, ndvi, soil, routes, prices, models, req, res, log, disk, dbUp, trades, settlements>>

\* _save_model: open(path, "wb") empties the file
SaveOpen(p) ==
    /\ procs[p].kind = "train"
    /\ procs[p].pc = "open"
    /\ disk' = <<>>
    /\ procs' = [procs EXCEPT ![p].pc = "write", ![p].offset = 0]
    /\ UNCHANGED <<cropMeta, weather, ndvi, soil, routes, prices, models, req, res, log, dbUp, trades, settlements>>

\* _save_model: pickle.dump writes the next chunk at the position of this
\* writer's file object; after the last chunk the file is closed
SaveWrite(p) ==
    /\ procs[p].kind = "train"
    /\ procs[p].pc = "write"
    /\ disk' = WriteAt(disk, procs[p].offset + 1,
                       Pickle(procs[p].model[1])[procs[p].offset + 1])
    /\ procs' = [procs EXCEPT
            ![p].offset = procs[p].offset + 1,
            ![p].pc = IF procs[p].offset + 1 = Chunks THEN "done" ELSE "write"]
    /\ UNCHANGED <<cropMeta, weather, ndvi, soil, routes, prices, models, req, res, log, dbUp, trades, settlements>>

\* PricePredictor.__init__ of a forecast request: _load_models reads the file
\* as it is at that moment
LoadModels(p) ==
    /\ procs[p].kind = "predict"
    /\ procs[p].pc = "start"
    /\ \E loaded \in Loadable(disk) :
          procs' = [procs EXCEPT ![p].pc = "loaded", ![p].model = loaded]
    /\ UNCHANGED <<cropMeta, weather, ndvi, soil, routes, prices, models, req, res, log, disk, dbUp, trades, settlements>>

\* predict of a forecast request, with the models its constructor loaded
PredictRun(p) ==
    /\ procs[p].kind = "predict"
    /\ procs[p].pc = "loaded"
    /\ dbUp
    /\ \E tie \in TieOrders :
          procs' = [procs EXCEPT
              ![p].pc = "done",
              ![p].out = <<PredictWith([NoModels EXCEPT !["onion"] = procs[p].model],
                                       "Onion", "Nashik", 1, tie)>>]
    /\ UNCHANGED <<cropMeta, weather, ndvi, soil, routes, prices, models, req, res, log, disk, dbUp, trades, settlements>>

\* the model file of an earlier training run
OldModel == [base |-> 4000, slope_pct |-> 0]

InitConcurrent ==
    /\ cropMeta = SeedCropMeta
    /\ weather = NoTable
    /\ ndvi = NoTable
    /\ soil = NoTable
    /\ routes = {}
    /\ prices \in { [nashik |-> PriceSeries(80, 2000, 10), pune |-> PriceSeries(20, 2500, 0),
                     mumbai |-> <<>>],
                    [nashik |-> PriceSeries(61, 2600, 0 - 10), pune |-> PriceSeries(20, 2500, 0),
                     mumbai |-> <<>>] }
    /\ models = NoModels
    /\ req = [op |-> "concurrent"]
    /\ res = <<>>
    /\ log = <<>>
    /\ disk \in { <<>>, Pickle(OldModel) }
    /\ \E d1 \in {"", "Nashik"}, d2 \in {"", "Nashik"} :
          procs = [p \in Trainers \cup Predictors |->
                     [kind |-> IF p \in Trainers THEN "train" ELSE "predict",
                      pc |-> "start",
                      district |-> IF p = "t1" THEN d1 ELSE IF p = "t2" THEN d2 ELSE "Nashik",
                      model |-> <<>>, offset |-> 0, out |-> <<>>]]
    /\ dbUp = TRUE
    /\ trades = <<>>
    /\ settlements = <<>>

NextConcurrent ==
    \E p \in Trainers \cup Predictors :
        \/ TrainFit(p)
        \/ SaveOpen(p)
        \/ SaveWrite(p)
        \/ LoadModels(p)
        \/ PredictRun(p)

SpecConcurrent == InitConcurrent /\ [][NextConcurrent]_vars

\* C18: under every interleaving of concurrent training runs of one commodity
\* and concurrent forecasts, every forecast completes without error and is
\* made with no model or with a model that a training run wrote in full,
\* never a partly written or mixed one; and once all training runs have
\* finished, the stored file is the complete model of one of the runs that
\* stored a model.
C18_LastWriterWins ==
    /\ \A p \in Predictors :
          /\ procs[p].pc = "done" => procs[p].out[1].error = ""
          /\ procs[p].pc \in {"loaded", "done"} =>
                \/ procs[p].model = <<>>
                \/ procs[p].model = <<OldModel>>
                \/ \E t \in Trainers : procs[p].model = procs[t].model
    /\ (/\ \A t \in Trainers : procs[t].pc = "done"
        /\ \E t \in Trainers : procs[t].model # <<>>)
          => \E t \in Trainers :
                /\ procs[t].model # <<>>
                /\ disk = Pickle(procs[t].model[1])

\* both training runs have finished and the file starts with a chunk of one
\* model and ends with a chunk of the other
C18_Witness ==
    /\ \A t \in Trainers : procs[t].pc = "done" /\ procs[t].model # <<>>
    /\ procs["t1"].model # procs["t2"].model
    /\ IsMixture(disk)
    /\ disk[1].of # disk[Chunks].of

-----------------------------------------------------------------------------
(* Trades and escrow settlements (services/blockchain_service.py) *)
(* Amounts are in hundredths of a rupee. The on-chain branch of every       *)
(* function only adds a transaction hash and swallows its own failures; the *)
(* rows are written the same way with the chain live or not.                *)

MaxTrades == 2

\* quantity_kg * price_per_kg of the trades created
TradeAmounts == { 250050 }

PenaltyRates == { 5 }

\* the trade ids the calls are made with; MaxTrades + 1 is never a trade
TradeIds == 1..(MaxTrades + 1)

\* db.query(TradeRecord).filter(TradeRecord.id == trade_id).first()
TradeFound(trade_id) == trade_id \in 1..Len(trades)

\* db.query(SettlementRecord).filter(trade_id == trade_id).first(), as the
\* position of the row, 0 when there is none
SettlementOf(trade_id) ==
    LET rows == { i \in 1..Len(settlements) : settlements[i].trade_id = trade_id }
    IN  IF rows = {} THEN 0 ELSE CHOOSE i \in rows : \A j \in rows : i <= j

\* the value a call returns
Returned(op, trade_id, status, error) ==
    [op |-> op, trade_id |-> trade_id, status |-> status, error |-> error]

\* create_trade: the row is committed with status "confirmed" on every path
CreateTrade ==
    /\ req.op = "escrow"
    /\ Len(trades) < MaxTrades
    /\ \E amount \in TradeAmounts, rate \in PenaltyRates :
          /\ trades' = Append(trades, [total_amount |-> amount, penalty_rate |-> rate,
                                       status |-> "confirmed"])
          /\ res' = <<Returned("create_trade", Len(trades) + 1, "confirmed", "")>>
    /\ UNCHANGED <<cropMeta, weather, ndvi, soil, routes, prices, models, req, log, disk, procs, dbUp, settlements>>

\* confirm_delivery
ConfirmDelivery ==
    /\ req.op = "escrow"
    /\ \E trade_id \in TradeIds :
          IF ~TradeFound(trade_id)
          THEN /\ res' = <<Returned("confirm_delivery", trade_id, "", "Trade not found")>>
               /\ UNCHANGED trades
          ELSE /\ trades' = [trades EXCEPT ![trade_id].status = "delivered"]
               /\ res' = <<Returned("confirm_delivery", trade_id, "delivered", "")>>
    /\ UNCHANGED <<cropMeta, weather, ndvi, soil, routes, prices, models, req, log, disk, procs, dbUp, settlements>>

\* cancel_trade
CancelTrade ==
    /\ req.op = "escrow"
    /\ \E trade_id \in TradeIds :
          IF ~TradeFound(trade_id)
          THEN /\ res' = <<Returned("cancel_trade", trade_id, "", "Trade not found")>>
               /\ UNCHANGED trades
          ELSE IF trades[trade_id].status \in {"delivered", "cancelled"}
          THEN /\ res' = <<Returned("cancel_trade", trade_id, "", "Cannot cancel trade")>>
               /\ UNCHANGED trades
          ELSE /\ trades' = [trades EXCEPT ![trade_id].status = "cancelled"]
               /\ res' = <<Returned("cancel_trade", trade_id, "cancelled", "")>>
    /\ UNCHANGED <<cropMeta, weather, ndvi, soil, routes, prices, models, req, log, disk, procs, dbUp, settlements>>

\* lock_escrow
LockEscrow ==
    /\ req.op = "escrow"
    /\ \E trade_id \in TradeIds :
          LET existing == SettlementOf(trade_id)
          IN  IF ~TradeFound(trade_id)
              THEN /\ res' = <<Returned("lock_escrow", trade_id, "", "Trade not found")>>
                   /\ UNCHANGED settlements
              ELSE IF existing # 0 /\ settlements[existing].status # "pending"
              THEN /\ res' = <<Returned("lock_escrow", trade_id, "",
                                        "Settlement already exists")>>
                   /\ UNCHANGED settlements
              ELSE /\ settlements' =
                         IF existing # 0
                         THEN [settlements EXCEPT ![existing].status = "locked"]
                         ELSE Append(settlements,
                                     [trade_id |-> trade_id,
                                      amount |-> trades[trade_id].total_amount,
                                      penalty_amount |-> 0,
                                      status |-> "locked"])
                   /\ res' = <<Returned("lock_escrow", trade_id, "locked", "")>>
    /\ UNCHANGED <<cropMeta, weather, ndvi, soil, routes, prices, models, req, log, disk, procs, dbUp, trades>>

\* release_escrow
ReleaseEscrow ==
    /\ req.op = "escrow"
    /\ \E trade_id \in TradeIds :
          LET settlement == SettlementOf(trade_id)
          IN  IF settlement = 0
              THEN /\ res' = <<Returned("release_escrow", trade_id, "",
                                        "No settlement found for this trade")>>
                   /\ UNCHANGED settlements
              ELSE IF settlements[settlement].status # "locked"
              THEN /\ res' = <<Returned("release_escrow", trade_id, "", "Cannot release")>>
                   /\ UNCHANGED settlements
              ELSE /\ settlements' = [settlements EXCEPT ![settlement].status = "released"]
                   /\ res' = <<Returned("release_escrow", trade_id, "released", "")>>
    /\ UNCHANGED <<cropMeta, weather, ndvi, soil, routes, prices, models, req, log, disk, procs, dbUp, trades>>

\* round(settlement.amount * (trade.penalty_rate / 100), 2)
PenaltyAmount(amount, penalty_rate) == RoundDiv(amount * penalty_rate, 100)

\* apply_penalty
ApplyPenalty ==
    /\ req.op = "escrow"
    /\ \E trade_id \in TradeIds :
          LET settlement == SettlementOf(trade_id)
          IN  IF ~TradeFound(trade_id) \/ settlement = 0
              THEN /\ res' = <<Returned("apply_penalty", trade_id, "",
                                        "Trade or settlement not found")>>
                   /\ UNCHANGED settlements
              ELSE IF settlements[settlement].status # "locked"
              THEN /\ res' = <<Returned("apply_penalty", trade_id, "", "Cannot penalize")>>
                   /\ UNCHANGED settlements
              ELSE /\ settlements' =
                         [settlements EXCEPT
                             ![settlement].penalty_amount =
                                 PenaltyAmount(settlements[settlement].amount,
                                               trades[trade_id].penalty_rate),
                             ![settlement].status = "penalized"]
                   /\ res' = <<Returned("apply_penalty", trade_id, "penalized", "")>>
    /\ UNCHANGED <<cropMeta, weather, ndvi, soil, routes, prices, models, req, log, disk, procs, dbUp, trades>>

\* refund_escrow
RefundEscrow ==
    /\ req.op = "escrow"
    /\ \E trade_id \in TradeIds :
          LET settlement == SettlementOf(trade_id)
          IN  IF settlement = 0
              THEN /\ res' = <<Returned("refund_escrow", trade_id, "", "No settlement found")>>
                   /\ UNCHANGED settlements
              ELSE IF settlements[settlement].status \notin {"locked", "pending"}
              THEN /\ res' = <<Returned("refund_escrow", trade_id, "", "Cannot refund")>>
                   /\ UNCHANGED settlements
              ELSE /\ settlements' = [settlements EXCEPT ![settlement].status = "refunded"]
                   /\ res' = <<Returned("refund_escrow", trade_id, "refunded", "")>>
    /\ UNCHANGED <<cropMeta, weather, ndvi, soil, routes, prices, models, req, log, disk, procs, dbUp, trades>>

-----------------------------------------------------------------------------
(* Specification of the trade and escrow service: any sequence of calls *)

InitEscrow ==
    /\ cropMeta = SeedCropMeta
    /\ weather = NoTable
    /\ ndvi = NoTable
    /\ soil = NoTable
    /\ routes = {}
    /\ prices = NoTable
    /\ models = NoModels
    /\ req = [op |-> "escrow"]
    /\ res = <<>>
    /\ log = <<>>
    /\ disk = <<>>
    /\ procs = <<>>
    /\ dbUp = TRUE
    /\ trades = <<>>
    /\ settlements = <<>>

NextEscrow ==
    \/ CreateTrade
    \/ ConfirmDelivery
    \/ CancelTrade
    \/ LockEscrow
    \/ ReleaseEscrow
    \/ ApplyPenalty
    \/ RefundEscrow

SpecEscrow == InitEscrow /\ [][NextEscrow]_vars

\* C27: escrowed funds are released only after delivery is confirmed: in every
\* sequence of create_trade, confirm_delivery, cancel_trade, lock_escrow,
\* release_escrow, apply_penalty and refund_escrow calls, a settlement becomes
\* released only if its trade has status delivered at that moment, and so
\* never for a cancelled trade.
C27_ReleaseOnlyAfterDelivery ==
    [][\A i \in 1..Len(settlements') :
          (/\ settlements'[i].status = "released"
           /\ (i > Len(settlements) \/ settlements[i].status # "released"))
              => /\ TradeFound(settlements'[i].trade_id)
                 /\ trades[settlements'[i].trade_id].status = "delivered"]_vars

\* release_escrow has just released the settlement of a cancelled trade
C27_Witness ==
    /\ res # <<>> /\ res[1].op = "release_escrow" /\ res[1].status = "released"
    /\ TradeFound(res[1].trade_id)
    /\ trades[res[1].trade_id].status = "cancelled"
    /\ settlements[SettlementOf(res[1].trade_id)].status = "released"

-----------------------------------------------------------------------------
(* The rule-only pipeline of routers/predict.py: build_features,            *)
(* PriceTrendModel, SpoilageRiskModel, HarvestWindowModel and               *)
(* combine_model_outputs. Risk scores are in ten-thousandths, temperature   *)
(* and humidity in tenths, transit in whole hours, prices in hundredths of  *)
(* a rupee, confidences in thousandths. weather holds the answer of         *)
(* fetch_weather_features and prices the answer of fetch_mandi_features.    *)

\* SpoilageRiskModel._normalize_storage_type: strip, lower, spaces to "_"
NormalizeStorageType(storage_type) ==
    CASE storage_type = "Cold Storage" -> "cold_storage"
      [] storage_type \in {"open_field", "warehouse", "cold_storage"} -> storage_type
      [] OTHER -> "warehouse"

\* SpoilageRiskModel.STORAGE_BASE_RISK
StorageBaseRisk(storage_key) ==
    CASE storage_key = "open_field" -> 7000
      [] storage_key = "warehouse" -> 4000
      [] storage_key = "cold_storage" -> 1500

\* SpoilageRiskModel._normalize_crop and CROP_DECAY_RATE
NormalizeCrop(crop) ==
    IF Lower(crop) \in {"onion", "tomato", "wheat", "rice", "potato", "soybean"}
    THEN Lower(crop) ELSE "onion"

CropDecayRate(crop_key) ==
    CASE crop_key = "onion" -> 80
      [] crop_key = "tomato" -> 400
      [] crop_key \in {"wheat", "rice"} -> 15
      [] crop_key = "potato" -> 100
      [] crop_key = "soybean" -> 45

\* SpoilageRiskModel.SHELF_LIFE_DAYS
RiskShelfLifeDays(crop_key) ==
    CASE crop_key = "onion" -> 30
      [] crop_key = "tomato" -> 7
      [] crop_key \in {"wheat", "rice"} -> 180
      [] crop_key = "potato" -> 60
      [] crop_key = "soybean" -> 45

\* SpoilageRiskModel._risk_category
RiskCategory(risk) ==
    IF risk <= 3000 THEN "Low"
    ELSE IF risk <= 6000 THEN "Medium"
    ELSE IF risk <= 8000 THEN "High"
    ELSE "Critical"

\* the risk before rounding
RiskScore(crop_key, storage_key, transit_hours, days_since_harvest, temp, humidity, rain_in_3days) ==
    Clamp(StorageBaseRisk(storage_key)
            + Max(0, days_since_harvest) * CropDecayRate(crop_key)
            + Max(0, transit_hours) * 150
            + (IF temp > 300 THEN (temp - 300) * 20 ELSE 0)
            + (IF humidity > 800 THEN 1000 ELSE 0)
            + (IF rain_in_3days THEN 1500 ELSE 0),
          0, 9500)

\* SpoilageRiskModel.predict
SpoilageRiskPredict(crop, storage_type, transit_hours, days_since_harvest, avg_temp, humidity_index, rain_in_3days) ==
    LET crop_key == NormalizeCrop(crop)
        risk == RiskScore(crop_key, NormalizeStorageType(storage_type), transit_hours,
                          days_since_harvest, avg_temp, humidity_index, rain_in_3days)
        daily_growth == CropDecayRate(crop_key) + (IF avg_temp > 300 THEN 40 ELSE 10)
        days_safe == IF risk >= 7000 THEN 0 ELSE (7000 - risk) \div Max(10, daily_growth)
    IN  [risk_score |-> <<RoundTo(risk, 10)>>,
         risk_category |-> <<RiskCategory(risk)>>,
         days_safe |-> Max(0, Min(days_safe, RiskShelfLifeDays(crop_key))),
         confidence |-> <<800>>]

\* PriceTrendModel._fallback_prediction
FallbackPrediction(features) ==
    LET base_price == IF features.price_7d_avg > 0 THEN features.price_7d_avg ELSE 200000
    IN  [direction |-> <<IF features.price_momentum = "rising"
                            /\ features.arrival_pressure = "low"
                         THEN "rising" ELSE "stable">>,
         confidence |-> <<550>>,
         expected_price_range |->
             << <<RoundTo(base_price * 96, 10), RoundTo(base_price * 105, 10)>> >>,
         fallback_used |-> TRUE]

\* PriceTrendModel.predict: the fitted classifier is an opaque function of the
\* features; class_ and probability stand for its answer
PriceTrendPredict(features, class_, probability) ==
    IF features.price_7d_avg <= 0 \/ features.price_14d_avg <= 0
    THEN FallbackPrediction(features)
    ELSE LET p7 == features.price_7d_avg
             p14 == features.price_14d_avg
             \* hundred-thousandths
             delta == ((IF p7 >= p14 THEN p7 - p14 ELSE p14 - p7) * 100000) \div p14
             volatility == Max(3500, Min(14000, delta + 2000))
             center_factor == IF class_ = "rising" THEN 104500
                              ELSE IF class_ = "falling" THEN 95500 ELSE 100000
         IN  [direction |-> <<class_>>,
              confidence |-> <<Clamp(probability, 500, 970)>>,
              expected_price_range |->
                  << <<RoundDiv(p7 * (center_factor - volatility), 10000),
                       RoundDiv(p7 * (center_factor + volatility), 10000)>> >>,
              fallback_used |-> FALSE]

\* HarvestWindowModel.CROP_MATURITY_DAYS
WindowMaturityDays(crop_key) ==
    CASE crop_key = "onion" -> 125
      [] crop_key = "tomato" -> 95
      [] crop_key = "wheat" -> 120
      [] crop_key = "rice" -> 135
      [] crop_key = "potato" -> 105
      [] OTHER -> 110

\* HarvestWindowModel._parse_sowing_date, as days before today: 100 days when
\* the text is empty or in no known format
ParseSowingDate(sowing_date) ==
    IF sowing_date # <<>> /\ sowing_date[1] = "iso" THEN sowing_date[2] ELSE 100

\* HarvestWindowModel.predict; the window in days from today
HarvestWindowPredict(crop_type, crop_stage, sowing_date, weather_features, price_trend, spoilage_risk) ==
    LET crop_stage_key == Lower(crop_stage)
        harvest_base_date == WindowMaturityDays(Lower(crop_type)) - ParseSowingDate(sowing_date)
        trend_direction == Lower(Get(price_trend.direction, "stable"))
        spoilage_category == Lower(Get(spoilage_risk.risk_category, "Medium"))
        branch == IF weather_features.extreme_weather_flag THEN "extreme"
                  ELSE IF weather_features.rain_in_3days /\ crop_stage_key = "harvest-ready"
                  THEN "rain"
                  ELSE IF trend_direction = "falling" THEN "falling"
                  ELSE IF trend_direction = "rising" /\ spoilage_category = "low" THEN "rising"
                  ELSE "short_wait"
        recommendation == CASE branch \in {"extreme", "rain", "falling"} -> "harvest_now"
                            [] branch = "rising" -> "wait_5_days"
                            [] OTHER -> "wait_2_days"
        window_start == CASE branch \in {"extreme", "rain", "falling"} -> 0
                          [] branch = "rising" -> 4
                          [] OTHER -> Max(0, harvest_base_date - 1)
        window_end == CASE branch = "extreme" -> 0
                        [] branch \in {"rain", "falling"} -> 1
                        [] branch = "rising" -> 6
                        [] OTHER -> window_start + 2
        \* hundred-thousandths
        confidence == Get(price_trend.confidence, 550) * 45
                        + Get(spoilage_risk.confidence, 620) * 35 + 20000
                        + (IF recommendation = "harvest_now" THEN 6000 ELSE 0)
                        - (IF crop_stage_key \notin {"harvest-ready", "ready", "mature"}
                           THEN 8000 ELSE 0)
    IN  [harvest_window_start |-> window_start,
         harvest_window_end |-> window_end,
         recommendation |-> <<recommendation>>,
         confidence |-> <<RoundTo(Clamp(confidence, 52000, 94000), 100)>>]

\* build_features: the keys the models and the composer read
BuildFeatures(transit_hours, weather_raw, mandi_raw) ==
    LET safe_transit == Max(1, Min(48, transit_hours))
        \* transit_factor = 1.0 + max(0.0, safe_transit - 12.0) * 0.01
        transport_cost_estimate ==
            RoundDiv(mandi_raw.transport_cost_estimate * (100 + Max(0, safe_transit - 12)), 100)
    IN  [weather_features |->
             [rain_in_3days |-> weather_raw.rain_in_3days,
              avg_temp |-> weather_raw.avg_temp_next7days,
              humidity_index |-> weather_raw.humidity_index,
              extreme_weather_flag |-> weather_raw.extreme_weather_flag],
         rain_in_3days |-> weather_raw.rain_in_3days,
         avg_temp |-> weather_raw.avg_temp_next7days,
         humidity_index |-> weather_raw.humidity_index,
         extreme_weather_flag |-> <<weather_raw.extreme_weather_flag>>,
         price_momentum |-> mandi_raw.price_momentum,
         arrival_pressure |-> mandi_raw.arrival_pressure,
         price_7d_avg |-> mandi_raw.price_7day_moving_avg,
         price_14d_avg |-> mandi_raw.price_14day_moving_avg,
         best_mandi_name |-> <<mandi_raw.best_mandi_name>>,
         best_mandi_price |-> <<mandi_raw.best_mandi_price>>,
         local_mandi_price |-> <<mandi_raw.local_mandi_price>>,
         transport_cost_estimate |-> <<transport_cost_estimate>>,
         estimated_distance_km |-> <<mandi_raw.estimated_distance_km>>]

\* _run_pipeline
RunPipeline(r, weather_raw, mandi_raw, class_, probability) ==
    LET features == BuildFeatures(r.transit_hours, weather_raw, mandi_raw)
        price_trend == PriceTrendPredict(features, class_, probability)
        spoilage_risk == SpoilageRiskPredict(r.crop, r.storage_type, r.transit_hours,
                             r.days_since_harvest, features.avg_temp,
                             features.humidity_index, features.rain_in_3days)
        harvest_window == HarvestWindowPredict(r.crop, r.crop_stage, r.sowing_date,
                              features.weather_features, price_trend, spoilage_risk)
        decision == CombineModelOutputs(price_trend, harvest_window, spoilage_risk, features)
    IN  [op |-> "pipeline",
         price_trend |-> price_trend,
         spoilage_risk |-> spoilage_risk,
         harvest_window |-> harvest_window,
         decision |-> decision]

\* the classes of the fitted classifier and the probabilities it may report
TrendClasses == { "rising", "falling", "stable" }
TrendProbabilities == { 420, 900 }

\* a request served by _run_pipeline
Pipeline ==
    /\ req.op = "pipeline"
    /\ res = <<>>
    /\ \E class_ \in TrendClasses, probability \in TrendProbabilities :
          res' = <<RunPipeline(req, weather, prices, class_, probability)>>
    /\ UNCHANGED <<cropMeta, weather, ndvi, soil, routes, prices, models, req, log, disk, procs, dbUp, trades, settlements>>

-----------------------------------------------------------------------------
(* Specification of the rule-only pipeline *)

PipelineRequests ==
    { [op |-> "pipeline", crop |-> c, storage_type |-> st, transit_hours |-> t,
       days_since_harvest |-> d, crop_stage |-> cs, sowing_date |-> sd] :
         c \in {"Onion", "tomato"},
         st \in {"open_field", "warehouse", "Cold Storage", "cellar"},
         t \in {0, 1, 12, 30},
         d \in {0, 3},
         cs \in {"Harvest-Ready", "harvest-ready", "post-harvest"},
         sd \in {<<"invalid">>, <<"iso", 110>>} }

\* the answers of fetch_weather_features: the flag is set whenever the mean
\* temperature is 36.5 or more or the humidity 86 or more, and may be set by
\* an alert or a hot day otherwise
PipelineWeather ==
    { w \in [rain_in_3days : BOOLEAN, avg_temp_next7days : {300, 320, 370},
             humidity_index : {650, 810}, extreme_weather_flag : BOOLEAN] :
        w.avg_temp_next7days >= 365 => w.extreme_weather_flag }

\* the answers of fetch_mandi_features
PipelineMandi ==
    { [price_momentum |-> m, arrival_pressure |-> a,
       price_7day_moving_avg |-> p, price_14day_moving_avg |-> 2300,
       best_mandi_name |-> "Pune Market Yard", best_mandi_price |-> 2500,
       local_mandi_price |-> 2400, transport_cost_estimate |-> 22000,
       estimated_distance_km |-> 960] :
         m \in {"rising", "stable"}, a \in {"low", "normal"}, p \in {0, 2400} }

InitPipeline ==
    /\ cropMeta = SeedCropMeta
    /\ weather \in PipelineWeather
    /\ ndvi = NoTable
    /\ soil = NoTable
    /\ routes = {}
    /\ prices \in PipelineMandi
    /\ models = NoModels
    /\ req \in PipelineRequests
    /\ res = <<>>
    /\ log = <<>>
    /\ disk = <<>>
    /\ procs = <<>>
    /\ dbUp = TRUE
    /\ trades = <<>>
    /\ settlements = <<>>

NextPipeline == Pipeline

SpecPipeline == InitPipeline /\ [][NextPipeline]_vars

\* C30: in the rule-only pipeline, whenever rain is expected within 3 days
\* and the crop stage is harvest-ready, the final composed action is never a
\* wait_N_days action, for every storage type, transit time, temperature,
\* humidity and price trend.
C30_RainReadyNeverWaits ==
    (/\ res # <<>> /\ res[1].op = "pipeline"
     /\ weather.rain_in_3days
     /\ req.crop_stage \in {"harvest-ready", "Harvest-Ready"})
        => res[1].decision.action \notin {"wait_2_days", "wait_3_days", "wait_5_days"}

\* rain expected, the crop harvest-ready and in cold storage, not yet moved,
\* the price rising: the harvest-window model says harvest_now and the
\* composer turns it into wait_3_days
C30_Witness ==
    /\ res # <<>> /\ res[1].op = "pipeline"
    /\ weather.rain_in_3days /\ ~weather.extreme_weather_flag
    /\ req.crop_stage = "harvest-ready"
    /\ req.storage_type = "Cold Storage"
    /\ req.transit_hours = 0 /\ req.days_since_harvest = 0
    /\ res[1].spoilage_risk.risk_category = <<"Low">>
    /\ res[1].price_trend.direction = <<"rising">>
    /\ res[1].harvest_window.recommendation = <<"harvest_now">>
    /\ res[1].decision.action = "wait_3_days"

=============================================================================
